---- MODULE Spec2Model ----
(***************************************************************************)
(* A model of the rag-chatbot question-answering pipeline: the RAG state   *)
(* of src/rag.js (current topic, conversation history), the vector store   *)
(* of src/vectorstore.js as far as the pipeline reads and writes it, and   *)
(* the topic research loop of src/search.js.                               *)
(*                                                                         *)
(* Text is a sequence of one-character strings, so that trimming,          *)
(* sanitizing and fingerprinting are computed as the code computes them.   *)
(* A fixed literal of the code may appear as one long element.             *)
(* External collaborators (embedding, vector store, generation, search)    *)
(* are nondeterministic: every call may succeed or fail.                   *)
(***************************************************************************)
EXTENDS Integers, Sequences, FiniteSets, TLC

VARIABLES
  currentTopic,          \* state.currentTopic          (rag.js:8)
  currentTopicId,        \* state.currentTopicId        (rag.js:9)
  conversationHistory,   \* state.conversationHistory   (rag.js:10)
  collections,           \* the vector store: topic id -> stored records
  now,                   \* the clock read by new Date() (rag.js:314)
  last,                  \* the last operation: its inputs, outcome and calls
  retr,                  \* one call of retrieveRelevantChunks, inputs and output
  research,              \* one call of researchTopic and how far it got
  cache,                 \* the cache directory: file name -> payload and age
  currentPhase,          \* currentPhase of the command loop (main.js:16)
  displayedTopic,        \* currentTopic of the command loop (main.js:17)
  ingest,                \* one call of handleTopicIngestion and how far it got
  calc                   \* one call of a pure function: its input and output

vars == <<currentTopic, currentTopicId, conversationHistory, collections, now,
          last, retr, research, cache, currentPhase, displayedTopic, ingest,
          calc>>

\* The state of the command loop of main.js.
cli == <<currentPhase, displayedTopic, ingest>>

----------------------------------------------------------------------------
(* Bounds of the model *)

\* The longest chunk list handed to a function of chunk lists.
MaxChunks == 3

\* The largest chunkSize, in words, of a single call of chunkText.
MaxWindow == 4

\* The clock stops here: no further history entry is written afterwards.
MaxClock == 24

\* The answered turns of a short session.
MaxTurns == 1

\* The largest number of search templates of a research run.
MaxTemplates == 3

----------------------------------------------------------------------------
(* Text *)

\* F applied to the value of v, with v evaluated once.
With(v, F(_)) == CHOOSE y \in {F(x) : x \in {v}} : TRUE

\* null of JavaScript, as a text no input equals
Null == <<"null">>

IsWs(c) == c \in {" ", "\t", "\n"}

TrimStart(s) ==
  IF \A i \in 1..Len(s) : IsWs(s[i]) THEN <<>>
  ELSE SubSeq(s, CHOOSE i \in 1..Len(s) :
                    ~IsWs(s[i]) /\ \A j \in 1..(i - 1) : IsWs(s[j]),
              Len(s))

TrimEnd(s) ==
  IF \A i \in 1..Len(s) : IsWs(s[i]) THEN <<>>
  ELSE SubSeq(s, 1,
              Len(s) - (CHOOSE k \in 0..(Len(s) - 1) :
                          ~IsWs(s[Len(s) - k])
                          /\ \A j \in 0..(k - 1) : IsWs(s[Len(s) - j])))

\* String.prototype.trim
Trim(s) == TrimEnd(TrimStart(s))

\* String.prototype.substring(0, n)
Substring0(s, n) == SubSeq(s, 1, IF Len(s) < n THEN Len(s) ELSE n)

LowerOf(c) ==
  CASE c = "R" -> "r"
    [] c = "U" -> "u"
    [] c = "S" -> "s"
    [] c = "T" -> "t"
    [] c = "A" -> "a"
    [] OTHER -> c

\* String.prototype.toLowerCase
ToLowerCase(s) == [i \in 1..Len(s) |-> LowerOf(s[i])]

\* replace(/\s+/g, ' '): every run of whitespace becomes one space
CollapseWs(s) ==
  LET first(i) == IsWs(s[i]) /\ (i = 1 \/ ~IsWs(s[i - 1]))
      marked == [i \in 1..Len(s) |->
                   IF first(i) THEN " " ELSE IF IsWs(s[i]) THEN "" ELSE s[i]]
  IN  SelectSeq(marked, LAMBDA c : c # "")

\* replace(/[<>]/g, '')
StripAngles(s) == SelectSeq(s, LAMBDA c : c \notin {"<", ">"})

\* Array.prototype.join(sep)
RECURSIVE Join(_, _)
Join(parts, sep) ==
  IF parts = <<>> THEN <<>>
  ELSE IF Len(parts) = 1 THEN parts[1]
       ELSE parts[1] \o <<sep>> \o Join(Tail(parts), sep)

\* utils.sanitizeInput
sanitizeInput(input) == StripAngles(Trim(input))

----------------------------------------------------------------------------
(* The conversation history *)

\* const maxHistoryLength = 20 in addToHistory
maxHistoryLength == 20

\* slice(-n) of a sequence
SliceLast(s, n) == IF Len(s) > n THEN SubSeq(s, Len(s) - n + 1, Len(s)) ELSE s

\* The mutant of addToHistory that pushes and never trims.
addToHistoryNoTrim(history, role, content, time) ==
  Append(history, [role |-> role, content |-> content, timestamp |-> time])

\* The mutant of addToHistory that trims with slice(0, maxHistoryLength).
addToHistoryDropsNewest(history, role, content, time) ==
  LET pushed == Append(history,
                       [role |-> role, content |-> content, timestamp |-> time])
  IN  IF Len(pushed) > maxHistoryLength
      THEN SubSeq(pushed, 1, maxHistoryLength)
      ELSE pushed

\* The mutant of addToHistory whose cap is odd, one entry less.
addToHistoryOddCap(history, role, content, time) ==
  LET pushed == Append(history,
                       [role |-> role, content |-> content, timestamp |-> time])
  IN  IF Len(pushed) > maxHistoryLength - 1
      THEN SliceLast(pushed, maxHistoryLength - 1)
      ELSE pushed

\* addToHistory(state, role, content): the history after the call
addToHistory(history, role, content, time) ==
  LET pushed == Append(history,
                       [role |-> role, content |-> content, timestamp |-> time])
  IN  IF Len(pushed) > maxHistoryLength
      THEN SliceLast(pushed, maxHistoryLength)
      ELSE pushed

----------------------------------------------------------------------------
(* Topics, chunks and the vector store *)

\* Topic ids a caller may pass; the empty id is falsy in JavaScript.
TopicRust == <<"r", "s">>
TopicGo == <<"g", "o">>
TopicIds == {TopicRust, TopicGo}
TopicArgs == TopicIds \cup {<<>>}

\* Records a collection may hold: two search results whose contents share a
\* fingerprint (the second without a source) and a knowledge-graph record.
RecRust ==
  [id |-> "what_organic_0_0_rust", content |-> <<"R", "u", "s", "t">>,
   metadata |-> [source |-> "rust-lang.org", type |-> "search_result"]]
RecRustDup ==
  [id |-> "rust_organic_1_0_1", content |-> <<"r", "u", "s", "t">>,
   metadata |-> [source |-> "unknown", type |-> "search_result"]]
RecKnowledge ==
  [id |-> "what_knowledge_graph_0", content |-> <<"A", " ", " ", "s">>,
   metadata |-> [source |-> "Google Knowledge Graph", type |-> "knowledge_graph"]]

StoredSets == {<<>>, <<RecRust, RecRustDup, RecKnowledge>>}

\* What a persistent vector store may hold when the program starts.
StoreStates ==
  UNION {[d -> StoredSets] : d \in SUBSET TopicIds}

\* Cosine distances, in hundredths, the store may report.
Distances == {10, 70}

\* results of collection.query({queryEmbeddings, nResults}): the nResults
\* nearest stored records, nearest first, each with its distance
QueryResults(stored, nResults) ==
  LET k == IF Len(stored) < nResults THEN Len(stored) ELSE nResults
      picks == {p \in [1..k -> 1..Len(stored)] :
                  \A i, j \in 1..k : i # j => p[i] # p[j]}
      dists == {d \in [1..k -> Distances] :
                  \A i, j \in 1..k : i < j => d[i] <= d[j]}
  IN  {[i \in 1..k |->
          [content |-> stored[p[i]].content,
           metadata |-> stored[p[i]].metadata,
           distance |-> d[i],
           id |-> stored[p[i]].id]] : p \in picks, d \in dists}

\* The mutant of topicExists that reports a collection as found whenever the
\* store answered at all.
topicExistsAlways(cols, topicId, getOk) == getOk

\* topicExists: true iff client.getCollection succeeded; every failure of the
\* call, a missing collection included, is false.
topicExists(cols, topicId, getOk) == getOk /\ topicId \in DOMAIN cols

\* getTopicCollection: get the collection, else create it; throws when both
\* calls fail.  Creating a collection whose name is taken fails.
getTopicCollection(cols, topicId, getOk, createOk) ==
  IF getOk /\ topicId \in DOMAIN cols
  THEN [ok |-> TRUE, cols |-> cols, getCalls |-> 1, createCalls |-> 0]
  ELSE IF createOk /\ topicId \notin DOMAIN cols
       THEN [ok |-> TRUE,
             cols |-> [t \in DOMAIN cols \cup {topicId} |->
                         IF t = topicId THEN <<>> ELSE cols[t]],
             getCalls |-> 1, createCalls |-> 1]
       ELSE [ok |-> FALSE, cols |-> cols, getCalls |-> 1, createCalls |-> 1]

\* searchTopicChunks: the formatted results, or a throw when the collection,
\* the query embedding or the query fails.  env.results is what the store
\* answers when the query succeeds.
searchTopicChunks(cols, topicId, env) ==
  With(getTopicCollection(cols, topicId, env.getOk, env.createOk), LAMBDA gc :
    LET out(ok, chunks, embeds, queries) ==
          [ok |-> ok, chunks |-> chunks, cols |-> gc.cols,
           getCalls |-> gc.getCalls, createCalls |-> gc.createCalls,
           embedCalls |-> embeds, queryCalls |-> queries]
    IN  IF ~gc.ok THEN out(FALSE, <<>>, 0, 0)
        ELSE IF ~env.embedOk THEN out(FALSE, <<>>, 1, 0)
        ELSE IF ~env.queryOk THEN out(FALSE, <<>>, 1, 1)
        ELSE out(TRUE, env.results, 1, 1))

----------------------------------------------------------------------------
(* Deduplication *)

\* substring(0, 100) in deduplicateChunks
FingerprintLength == 100

\* contentHash of deduplicateChunks
Fingerprint(content) ==
  CollapseWs(ToLowerCase(Substring0(content, FingerprintLength)))

\* deduplicateChunks: the first chunk of every fingerprint, in input order
RECURSIVE DedupFrom(_, _, _)
DedupFrom(chunks, seen, unique) ==
  IF chunks = <<>> THEN unique
  ELSE LET h == Fingerprint(Head(chunks).content)
       IN  IF h \in seen
           THEN DedupFrom(Tail(chunks), seen, unique)
           ELSE DedupFrom(Tail(chunks), seen \cup {h}, Append(unique, Head(chunks)))

\* The mutant of deduplicateChunks that compares a chunk with the one
\* before it only.
deduplicateChunksAdjacent(chunks) ==
  SelectSeq([i \in 1..Len(chunks) |->
               IF i > 1 /\ Fingerprint(chunks[i].content)
                             = Fingerprint(chunks[i - 1].content)
               THEN [skip |-> TRUE] ELSE chunks[i]],
            LAMBDA c : "skip" \notin DOMAIN c)

deduplicateChunks(chunks) == DedupFrom(chunks, {}, <<>>)

----------------------------------------------------------------------------
(* The relevance warnings *)

\* Embedding vectors the embedding service may answer; one is shorter.
VecX == <<1, 0>>
VecY == <<0, 1>>
VecZero == <<0, 0>>
VecShort == <<1>>

\* What the two embedding calls of checkTopicMismatch may do: the first or
\* the second fails, or both answer with a vector.
MismatchEnvs ==
  {[qOk |-> FALSE, tOk |-> TRUE, q |-> VecX, t |-> VecX],
   [qOk |-> TRUE, tOk |-> FALSE, q |-> VecX, t |-> VecX],
   [qOk |-> TRUE, tOk |-> TRUE, q |-> VecX, t |-> VecX],
   [qOk |-> TRUE, tOk |-> TRUE, q |-> VecX, t |-> VecY],
   [qOk |-> TRUE, tOk |-> TRUE, q |-> VecZero, t |-> VecX],
   [qOk |-> TRUE, tOk |-> TRUE, q |-> VecShort, t |-> VecX]}

RECURSIVE SumTo(_, _, _)
SumTo(a, b, n) == IF n = 0 THEN 0 ELSE SumTo(a, b, n - 1) + a[n] * b[n]

Dot(a, b) == SumTo(a, b, Len(a))

\* calculateCosineSimilarity(vecA, vecB) < threshold / 100, decided on the
\* squares: the similarity is 0 when a norm is 0, else dot / (normA * normB).
CosineBelow(vecA, vecB, threshold) ==
  IF Dot(vecA, vecA) = 0 \/ Dot(vecB, vecB) = 0
  THEN 0 < threshold
  ELSE IF Dot(vecA, vecB) <= 0
       THEN TRUE
       ELSE 10000 * Dot(vecA, vecB) * Dot(vecA, vecB)
              < threshold * threshold * Dot(vecA, vecA) * Dot(vecB, vecB)

\* The mutant of checkTopicMismatch without its try/catch.
checkTopicMismatchNoCatch(config, m) ==
  IF ~m.qOk
  THEN [threw |-> TRUE, warned |-> FALSE, embedCalls |-> 1]
  ELSE IF ~m.tOk \/ Len(m.q) # Len(m.t)
       THEN [threw |-> TRUE, warned |-> FALSE, embedCalls |-> 2]
       ELSE [threw |-> FALSE,
             warned |-> CosineBelow(m.q, m.t, config.topicMismatchThreshold),
             embedCalls |-> 2]

\* checkTopicMismatch: two embedding calls and a comparison; every failure
\* inside (a failed call, vectors of different lengths) is caught.
checkTopicMismatch(config, m) ==
  IF ~m.qOk
  THEN [threw |-> FALSE, warned |-> FALSE, embedCalls |-> 1]
  ELSE IF ~m.tOk \/ Len(m.q) # Len(m.t)
       THEN [threw |-> FALSE, warned |-> FALSE, embedCalls |-> 2]
       ELSE [threw |-> FALSE,
             warned |-> CosineBelow(m.q, m.t, config.topicMismatchThreshold),
             embedCalls |-> 2]

\* warning 1 of checkWarningConditions: every similarity 1 - distance is below
\* the threshold
LowSimilarity(chunks, config) ==
  /\ config.enableSimilarityWarning
  /\ Len(chunks) > 0
  /\ \A i \in 1..Len(chunks) :
        100 - chunks[i].distance < config.lowSimilarityThreshold

\* The mutant of checkWarningConditions (and of the check it calls) without
\* the try/catch blocks: a failure inside propagates.
checkWarningConditionsNoCatch(chunks, config, m) ==
  With(IF config.enableTopicMismatchWarning
       THEN checkTopicMismatchNoCatch(config, m)
       ELSE [threw |-> FALSE, warned |-> FALSE, embedCalls |-> 0], LAMBDA tm :
    [threw |-> tm.threw,
     similarityWarning |-> LowSimilarity(chunks, config),
     mismatchWarning |-> ~tm.threw /\ tm.warned,
     embedCalls |-> tm.embedCalls])

\* checkWarningConditions: the warnings printed and the embedding calls made;
\* whatever is thrown inside is caught.
checkWarningConditions(chunks, config, m) ==
  With(IF config.enableTopicMismatchWarning
       THEN checkTopicMismatch(config, m)
       ELSE [threw |-> FALSE, warned |-> FALSE, embedCalls |-> 0], LAMBDA tm :
    [threw |-> FALSE,
     similarityWarning |-> LowSimilarity(chunks, config),
     mismatchWarning |-> ~tm.threw /\ tm.warned,
     embedCalls |-> tm.embedCalls])

\* What retrieveRelevantChunks hands back after a search: the chunks, or the
\* empty list when the search or the warning check threw.
Retrieved(found, unique, w, threw, chunks) ==
  [threw |-> threw,
   chunks |-> chunks,
   searchOk |-> found.ok,
   cols |-> found.cols,
   similarityWarning |-> found.ok /\ w.similarityWarning,
   mismatchWarning |-> found.ok /\ w.mismatchWarning,
   getCalls |-> found.getCalls,
   createCalls |-> found.createCalls,
   embedCalls |-> found.embedCalls + (IF found.ok THEN w.embedCalls ELSE 0),
   queryCalls |-> found.queryCalls]

\* The mutant of retrieveRelevantChunks that lets a failed search propagate.
retrieveRelevantChunksThrows(cols, topicId, config, env) ==
  With(searchTopicChunks(cols, topicId, env), LAMBDA found :
    With(deduplicateChunks(found.chunks), LAMBDA unique :
      With(checkWarningConditions(unique, config, env.mismatch), LAMBDA w :
        Retrieved(found, unique, w, ~found.ok, unique))))

\* retrieveRelevantChunks: search, deduplicate, run the warning checks; any
\* throw inside returns the empty list.
retrieveRelevantChunks(cols, topicId, config, env) ==
  With(searchTopicChunks(cols, topicId, env), LAMBDA found :
    With(deduplicateChunks(found.chunks), LAMBDA unique :
      With(checkWarningConditions(unique, config, env.mismatch), LAMBDA w :
        Retrieved(found, unique, w, FALSE,
                  IF found.ok /\ ~w.threw THEN unique ELSE <<>>))))

----------------------------------------------------------------------------
(* Answer generation *)

IsKg(c) == c.metadata.type = "knowledge_graph"

\* The mutant of CompareChunks that compares distances only.
CompareChunksByDistance(a, b) == a.distance - b.distance

\* the comparator of buildContext's sort: negative, zero or positive
CompareChunks(a, b) ==
  IF IsKg(a) /\ ~IsKg(b) THEN -1
  ELSE IF IsKg(b) /\ ~IsKg(a) THEN 1
  ELSE a.distance - b.distance

\* Array.prototype.sort is stable: x goes after every element not greater.
RECURSIVE InsertChunk(_, _)
InsertChunk(sorted, x) ==
  IF sorted = <<>> THEN <<x>>
  ELSE IF CompareChunks(Head(sorted), x) <= 0
       THEN <<Head(sorted)>> \o InsertChunk(Tail(sorted), x)
       ELSE <<x>> \o sorted

RECURSIVE SortChunks(_)
SortChunks(chunks) ==
  IF chunks = <<>> THEN <<>>
  ELSE InsertChunk(SortChunks(SubSeq(chunks, 1, Len(chunks) - 1)),
                   chunks[Len(chunks)])

\* extractSources: the distinct sources in chunk order, without the empty
\* source and without 'unknown'
RECURSIVE SourcesFrom(_, _)
SourcesFrom(chunks, acc) ==
  IF chunks = <<>> THEN acc
  ELSE LET src == Head(chunks).metadata.source
       IN  IF src # "" /\ src # "unknown" /\ \A i \in 1..Len(acc) : acc[i] # src
           THEN SourcesFrom(Tail(chunks), Append(acc, src))
           ELSE SourcesFrom(Tail(chunks), acc)

extractSources(chunks) == SourcesFrom(chunks, <<>>)

\* The literal answer of the strict fallback.
Sentinel ==
  <<"I don't have enough information in my knowledge base to answer that question.">>

\* What ollama.chat may do: answer with a text, or fail with an error.
GenError == "connect ECONNREFUSED 127.0.0.1:11434"
GenEnvs ==
  {[ok |-> TRUE, text |-> <<" ", "o", "k", "\n">>, error |-> ""],
   [ok |-> FALSE, text |-> <<>>, error |-> GenError]}

\* The context of the generation prompt


\* `Source: ${chunk.metadata.source}\n${chunk.content}\n\n`, for a source
\* that is one character long.
BlockOf(chunk) ==
  <<"S", "o", "u", "r", "c", "e", ":", " ", chunk.metadata.source, "\n">>
    \o chunk.content \o <<"\n", "\n">>

\* The mutant of ContextFrom that goes on to the next chunk after one that
\* does not fit.
RECURSIVE ContextFromSkipping(_, _, _, _)
ContextFromSkipping(sortedChunks, placed, context, maxLength) ==
  IF sortedChunks = <<>> THEN [context |-> context, placed |-> placed]
  ELSE LET chunk == Head(sortedChunks)
           block == BlockOf(chunk)
       IN  IF Len(context) + Len(block) <= maxLength
           THEN ContextFromSkipping(Tail(sortedChunks), Append(placed, chunk),
                                    context \o block, maxLength)
           ELSE ContextFromSkipping(Tail(sortedChunks), placed, context,
                                    maxLength)

\* The loop of buildContext: a block is appended while it fits, and the loop
\* ends at the first block that does not. currentLength is Len(context).
RECURSIVE ContextFrom(_, _, _, _)
ContextFrom(sortedChunks, placed, context, maxLength) ==
  IF sortedChunks = <<>> THEN [context |-> context, placed |-> placed]
  ELSE LET chunk == Head(sortedChunks)
           block == BlockOf(chunk)
       IN  IF Len(context) + Len(block) <= maxLength
           THEN ContextFrom(Tail(sortedChunks), Append(placed, chunk),
                            context \o block, maxLength)
           ELSE [context |-> context, placed |-> placed]

\* buildContext: the context, with the sorted list (the sort is in place)
\* and the chunks whose blocks were appended.
buildContext(chunks, maxLength) ==
  With(SortChunks(chunks), LAMBDA sortedChunks :
    With(ContextFrom(sortedChunks, <<>>, <<>>, maxLength), LAMBDA r :
      [context |-> Trim(r.context), sortedChunks |-> sortedChunks,
       placed |-> r.placed]))

\* config.rag.maxContextLength
maxContextLength == 6000

\* The mutant of getRecentConversationContext that takes the first four
\* entries of the history.
getRecentConversationContextOldest(history) ==
  IF Len(history) = 0 THEN <<>>
  ELSE LET recentHistory == SubSeq(history, 1,
                                   IF Len(history) < 4 THEN Len(history) ELSE 4)
       IN  Join([k \in 1..Len(recentHistory) |->
                   <<recentHistory[k].role, ":", " ">>
                     \o recentHistory[k].content], "\n")

\* getRecentConversationContext: the last four entries as "role: content"
\* lines; the role is one element of the text.
getRecentConversationContext(history) ==
  IF Len(history) = 0 THEN <<>>
  ELSE LET recentHistory == SliceLast(history, 4)
       IN  Join([k \in 1..Len(recentHistory) |->
                   <<recentHistory[k].role, ":", " ">>
                     \o recentHistory[k].content], "\n")

\* The fixed parts of the prompt, one element each.
HybridIntro ==
  "You are an expert assistant. If the context below answers the question, use it. If the context is missing or unrelated, use your own knowledge.\n\n"
StrictIntro ==
  "You are an expert assistant. Answer the user's question using only the context below. If the context doesn't have the answer, say \"I don't know.\"\n\n"
ContextStart == "--- CONTEXT START ---\n"
NoContext == "No relevant context found."
ContextEnd == "\n--- CONTEXT END ---\n"
RecentStart == "\n\n--- RECENT CONVERSATION ---\n"
QuestionStart == "\n\n--- QUESTION ---\n"

\* buildPrompt: the introduction of the mode, the context or its
\* placeholder, the recent conversation if there is one, and the question.
buildPrompt(question, context, history, allowModelKnowledge) ==
  With(getRecentConversationContext(history), LAMBDA conversationContext :
    <<IF allowModelKnowledge THEN HybridIntro ELSE StrictIntro, ContextStart>>
      \o (IF context # <<>> THEN context ELSE <<NoContext>>)
      \o <<ContextEnd>>
      \o (IF conversationContext # <<>>
          THEN <<RecentStart>> \o conversationContext ELSE <<>>)
      \o <<QuestionStart>> \o question)

\* The mutant of generateAnswer that answers with the sentinel when the chat
\* call fails.
generateAnswerFallback(question, chunks, history, config, gen) ==
  With(buildContext(chunks, config.maxContextLength), LAMBDA c :
    [threw |-> FALSE,
     error |-> "",
     answer |-> IF gen.ok THEN Trim(gen.text) ELSE Sentinel,
     chunks |-> c.sortedChunks,
     prompt |-> buildPrompt(question, c.context, history,
                            config.allowModelKnowledge),
     chatCalls |-> 1])

\* generateAnswer: buildContext sorts the chunk array in place, buildPrompt
\* reads the history of the state, then one chat call with the prompt; its
\* failure is rethrown.  The answer is the trimmed response text.
generateAnswer(question, chunks, history, config, gen) ==
  With(buildContext(chunks, config.maxContextLength), LAMBDA c :
    [threw |-> ~gen.ok,
     error |-> IF gen.ok THEN "" ELSE gen.error,
     answer |-> IF gen.ok THEN Trim(gen.text) ELSE <<>>,
     chunks |-> c.sortedChunks,
     prompt |-> buildPrompt(question, c.context, history,
                            config.allowModelKnowledge),
     chatCalls |-> 1])

----------------------------------------------------------------------------
(* The RAG state machine: setTopic, answerQuestion, clearHistory *)

NoTopicError == "No topic set. Please set a topic first."
EmptyQuestionError == "Question cannot be empty"
TopicNotFoundError == "Topic not found in knowledge base"
SearchError == "Failed to search chunks"

NoCalls ==
  [getCollection |-> 0, createCollection |-> 0, embed |-> 0, query |-> 0,
   chat |-> 0]

NoResult == [answer |-> <<>>, sources |-> <<>>, chunks_used |-> 0, topic |-> Null]

\* The mutant of setTopic that resets the history only when the topic changes.
setTopicKeepsHistory(topicId, history, cols, arg, getOk) ==
  IF ~topicExists(cols, arg, getOk)
  THEN [threw |-> TRUE, exists |-> FALSE, topicId |-> topicId, history |-> history]
  ELSE [threw |-> FALSE, exists |-> TRUE, topicId |-> arg,
        history |-> IF arg = topicId THEN history ELSE <<>>]

\* setTopic(state, vectorContext, topicId): throws when topicExists answers
\* false, else sets the topic and empties the history.
setTopic(topicId, history, cols, arg, getOk) ==
  IF ~topicExists(cols, arg, getOk)
  THEN [threw |-> TRUE, exists |-> FALSE, topicId |-> topicId, history |-> history]
  ELSE [threw |-> FALSE, exists |-> TRUE, topicId |-> arg, history |-> <<>>]

\* The mutant of the topic guard that lets every call through.
NoTopicSetNever(topicId) == FALSE

\* !state.currentTopicId: null and the empty text are falsy
NoTopicSet(topicId) == topicId = Null \/ topicId = <<>>

\* The mutant of the hybrid branch that ignores the mode flag.
UseModelKnowledgeAlways(chunks, config) == Len(chunks) = 0

\* relevantChunks.length === 0 && config.chat.allowModelKnowledge
UseModelKnowledge(chunks, config) ==
  Len(chunks) = 0 /\ config.allowModelKnowledge

\* The mutant of the history update that records the answer before the
\* question.
RecordTurnSwapped(history, question, answer, time) ==
  addToHistory(addToHistory(history, "assistant", answer, time),
               "user", question, time + 1)

\* addToHistory(state, 'user', q); addToHistory(state, 'assistant', a)
RecordTurn(history, question, answer, time) ==
  addToHistory(addToHistory(history, "user", question, time),
               "assistant", answer, time + 1)

\* The mutant of answerQuestion that records the question before it calls
\* generateAnswer.
answerQuestionRecordsEarly(topicId, history, cols, config, question, env, time) ==
  LET early(msg) ==
        [threw |-> TRUE, error |-> msg, result |-> NoResult,
         history |-> history, cols |-> cols, time |-> time, calls |-> NoCalls,
         validated |-> FALSE, searchOk |-> FALSE, retrieved |-> 0,
         gen |-> "none", prompt |-> <<>>]
  IN
  IF NoTopicSet(topicId) THEN early(NoTopicError)
  ELSE With(sanitizeInput(question), LAMBDA sanitizedQuestion :
    IF Trim(sanitizedQuestion) = <<>> THEN early(EmptyQuestionError)
    ELSE With(retrieveRelevantChunks(cols, topicId, config, env), LAMBDA r :
      LET base == [threw |-> FALSE, error |-> "", result |-> NoResult,
                   history |-> history, cols |-> r.cols, time |-> time,
                   calls |-> [getCollection |-> r.getCalls,
                              createCollection |-> r.createCalls,
                              embed |-> r.embedCalls, query |-> r.queryCalls,
                              chat |-> 0],
                   validated |-> TRUE, searchOk |-> r.searchOk,
                   retrieved |-> Len(r.chunks), gen |-> "none",
                   prompt |-> <<>>]
          generated ==
            With(generateAnswer(sanitizedQuestion, r.chunks, history,
                                config, env.gen),
                 LAMBDA a :
              IF a.threw
              THEN [base EXCEPT !.threw = TRUE, !.error = a.error,
                                !.calls.chat = a.chatCalls, !.gen = "failed",
                                !.prompt = a.prompt,
                                !.history = addToHistory(history, "user",
                                                         sanitizedQuestion,
                                                         time)]
              ELSE [base EXCEPT
                      !.result = [answer |-> a.answer,
                                  sources |-> extractSources(a.chunks),
                                  chunks_used |-> Len(a.chunks),
                                  topic |-> topicId],
                      !.history = RecordTurn(history, sanitizedQuestion,
                                             a.answer, time),
                      !.time = time + 2,
                      !.calls.chat = a.chatCalls,
                      !.gen = "ok",
                      !.prompt = a.prompt])
      IN
      IF r.threw
      THEN [base EXCEPT !.threw = TRUE, !.error = SearchError, !.retrieved = 0]
      ELSE IF UseModelKnowledge(r.chunks, config) THEN generated
      ELSE IF Len(r.chunks) = 0
      THEN [base EXCEPT !.result = [answer |-> Sentinel, sources |-> <<>>,
                                    chunks_used |-> 0, topic |-> topicId]]
      ELSE generated))

\* answerQuestion(state, vectorContext, ollama, config, question): what it
\* returns or throws, the history, the store and the clock after the call,
\* and the collaborator calls it made.
answerQuestion(topicId, history, cols, config, question, env, time) ==
  LET early(msg) ==
        [threw |-> TRUE, error |-> msg, result |-> NoResult,
         history |-> history, cols |-> cols, time |-> time, calls |-> NoCalls,
         validated |-> FALSE, searchOk |-> FALSE, retrieved |-> 0,
         gen |-> "none", prompt |-> <<>>]
  IN
  IF NoTopicSet(topicId) THEN early(NoTopicError)
  ELSE With(sanitizeInput(question), LAMBDA sanitizedQuestion :
    IF Trim(sanitizedQuestion) = <<>> THEN early(EmptyQuestionError)
    ELSE With(retrieveRelevantChunks(cols, topicId, config, env), LAMBDA r :
      LET base == [threw |-> FALSE, error |-> "", result |-> NoResult,
                   history |-> history, cols |-> r.cols, time |-> time,
                   calls |-> [getCollection |-> r.getCalls,
                              createCollection |-> r.createCalls,
                              embed |-> r.embedCalls, query |-> r.queryCalls,
                              chat |-> 0],
                   validated |-> TRUE, searchOk |-> r.searchOk,
                   retrieved |-> Len(r.chunks), gen |-> "none",
                   prompt |-> <<>>]
          generated ==
            With(generateAnswer(sanitizedQuestion, r.chunks, history,
                                config, env.gen),
                 LAMBDA a :
              IF a.threw
              THEN [base EXCEPT !.threw = TRUE, !.error = a.error,
                                !.calls.chat = a.chatCalls, !.gen = "failed",
                                !.prompt = a.prompt]
              ELSE [base EXCEPT
                      !.result = [answer |-> a.answer,
                                  sources |-> extractSources(a.chunks),
                                  chunks_used |-> Len(a.chunks),
                                  topic |-> topicId],
                      !.history = RecordTurn(history, sanitizedQuestion,
                                             a.answer, time),
                      !.time = time + 2,
                      !.calls.chat = a.chatCalls,
                      !.gen = "ok",
                      !.prompt = a.prompt])
      IN
      IF r.threw
      THEN [base EXCEPT !.threw = TRUE, !.error = SearchError, !.retrieved = 0]
      ELSE IF UseModelKnowledge(r.chunks, config) THEN generated
      ELSE IF Len(r.chunks) = 0
      THEN [base EXCEPT !.result = [answer |-> Sentinel, sources |-> <<>>,
                                    chunks_used |-> 0, topic |-> topicId]]
      ELSE generated))

\* clearHistory(state)
clearHistory(history) == <<>>

----------------------------------------------------------------------------
(* Inputs of the operations *)

\* Questions a user may type: one that survives sanitizing (as " a"), and two
\* that are empty once trimmed and stripped.
QuestionValid == <<" ", "<", " ", "a", ">", " ">>
QuestionAngles == <<"<", ">">>
QuestionBlank == <<" ", "<", " ", ">">>
Questions == {QuestionValid, QuestionAngles, QuestionBlank}

\* config.warnings thresholds, in hundredths
lowSimilarityThreshold == 40
topicMismatchThreshold == 30

\* config.chat.maxHistoryLength, which no function reads
chatMaxHistoryLength == 10

\* config.rag.maxRetrievedChunks, and a smaller setting
maxRetrievedChunks == 8

Configs ==
  [allowModelKnowledge : BOOLEAN,
   maxRetrievedChunks : {1, maxRetrievedChunks},
   enableSimilarityWarning : BOOLEAN,
   enableTopicMismatchWarning : BOOLEAN,
   lowSimilarityThreshold : {lowSimilarityThreshold},
   topicMismatchThreshold : {topicMismatchThreshold},
   maxContextLength : {maxContextLength}]

\* The configurations of a chat session: both warnings on, or both off.
ChatConfigs ==
  {c \in Configs : c.enableSimilarityWarning = c.enableTopicMismatchWarning}

DefaultMismatch == [qOk |-> TRUE, tOk |-> TRUE, q |-> VecX, t |-> VecX]
DefaultGen == [ok |-> TRUE, text |-> <<" ", "o", "k", "\n">>, error |-> ""]
DefaultConfig ==
  [allowModelKnowledge |-> TRUE, maxRetrievedChunks |-> maxRetrievedChunks,
   enableSimilarityWarning |-> TRUE, enableTopicMismatchWarning |-> TRUE,
   lowSimilarityThreshold |-> lowSimilarityThreshold,
   topicMismatchThreshold |-> topicMismatchThreshold,
   maxContextLength |-> maxContextLength]

StoredAt(cols, topicId) == IF topicId \in DOMAIN cols THEN cols[topicId] ELSE <<>>

\* The answers of the store for the collections of StoredSets, computed once.
QueryTable ==
  [s \in StoredSets, n \in {1, maxRetrievedChunks} |-> QueryResults(s, n)]

ResultsOf(stored, n) ==
  IF <<stored, n>> \in DOMAIN QueryTable
  THEN QueryTable[stored, n]
  ELSE QueryResults(stored, n)

\* The one answer in which the records come in stored order at distance d.
StoredOrder(stored, n, d) ==
  [i \in 1..(IF Len(stored) < n THEN Len(stored) ELSE n) |->
     [content |-> stored[i].content, metadata |-> stored[i].metadata,
      distance |-> d, id |-> stored[i].id]]

\* Where a retrieval fails, if it does.
FailurePoints == {"collection", "embed", "query", "none"}

\* What the collaborators do during one call: fp is the call that fails,
\* results the store's answer, m the mismatch embeddings, g the generation.
MkEnv(fp, results, m, g) ==
  [getOk |-> fp # "collection", createOk |-> fp # "collection",
   embedOk |-> fp \notin {"collection", "embed"},
   queryOk |-> fp = "none",
   results |-> results, mismatch |-> m, gen |-> g]

DefaultEnv == MkEnv("none", <<>>, DefaultMismatch, DefaultGen)

----------------------------------------------------------------------------
(* Text of the research loop *)

Letters ==
  {"a", "b", "c", "d", "e", "f", "g", "h", "i", "j", "k", "l", "m", "n", "o",
   "p", "q", "r", "s", "t", "u", "v", "w", "x", "y", "z"}
Uppers == {"R", "U", "S", "T", "A"}
Digits == {"0", "1", "2", "3", "4", "5", "6", "7", "8", "9"}

\* [a-z0-9] and, with the i flag, [a-z0-9] in either case
IsLowerAlnum(c) == c \in Letters \cup Digits
IsAlnum(c) == c \in Letters \cup Uppers \cup Digits

\* The placeholder of a search template, one element of its text.
Placeholder == "{topic}"

\* The characters of a text in which the placeholder is written out.
RECURSIVE ExpandPlaceholder(_)
ExpandPlaceholder(s) ==
  IF s = <<>> THEN <<>>
  ELSE (IF Head(s) = Placeholder
        THEN <<"{", "t", "o", "p", "i", "c", "}">>
        ELSE <<Head(s)>>) \o ExpandPlaceholder(Tail(s))

\* template.replace('{topic}', topic): the first occurrence is replaced.  The
\* topics of the model hold no "$", which replace would read as a pattern.
RECURSIVE ReplaceTopic(_, _)
ReplaceTopic(template, topic) ==
  IF template = <<>> THEN <<>>
  ELSE IF Head(template) = Placeholder THEN topic \o Tail(template)
       ELSE <<Head(template)>> \o ReplaceTopic(Tail(template), topic)

\* String.prototype.split(sep) for a one-character separator
RECURSIVE SplitFrom(_, _, _)
SplitFrom(s, sep, word) ==
  IF s = <<>> THEN <<word>>
  ELSE IF Head(s) = sep
       THEN <<word>> \o SplitFrom(Tail(s), sep, <<>>)
       ELSE SplitFrom(Tail(s), sep, Append(word, Head(s)))

Split(s, sep) == SplitFrom(s, sep, <<>>)

\* String.prototype.includes
Includes(s, sub) ==
  \E i \in 0..(Len(s) - Len(sub)) : SubSeq(s, i + 1, i + Len(sub)) = sub

\* A non-negative number as template literals print it.
RECURSIVE NumStr(_)
NumStr(n) ==
  LET digit(d) == <<"0", "1", "2", "3", "4", "5", "6", "7", "8", "9">>[d + 1]
  IN  IF n < 10 THEN <<digit(n)>>
      ELSE NumStr(n \div 10) \o <<digit(n % 10)>>

\* replace(/\s+/g, '_'): every run of whitespace becomes one underscore,
\* written at the first character of the run
UnderscoreWs(s) ==
  LET first(i) == IsWs(s[i]) /\ (i = 1 \/ ~IsWs(s[i - 1]))
      marked == [i \in 1..Len(s) |->
                   IF first(i) THEN "_" ELSE IF IsWs(s[i]) THEN "" ELSE s[i]]
  IN  SelectSeq(marked, LAMBDA c : c # "")

\* The sequences of a sequence of sequences, one after the other.
RECURSIVE Flatten(_)
Flatten(ss) == IF ss = <<>> THEN <<>> ELSE Head(ss) \o Flatten(Tail(ss))

\* utils.generateTopicId
generateTopicId(topic) ==
  Trim(UnderscoreWs(SelectSeq(ToLowerCase(topic),
                              LAMBDA c : IsLowerAlnum(c) \/ IsWs(c))))

\* The length at which the other generateTopicId of the repository cuts.
TopicIdLimit == 50

\* generateTopicId as the module that exports only this function has it:
\* cut to 50 characters, and no trim.
generateTopicId50(topic) ==
  Substring0(UnderscoreWs(SelectSeq(ToLowerCase(topic),
                                    LAMBDA c : IsLowerAlnum(c) \/ IsWs(c))),
             TopicIdLimit)

\* utils.chunkText: windows of chunkSize words that start every
\* chunkSize - overlap words; a window that trims to nothing is dropped.
\* The loop of the code ends only when overlap < chunkSize.
\* The mutant of ChunksFrom that also pushes a window that trims to nothing.
RECURSIVE ChunksFromKeepsEmpty(_, _, _, _)
ChunksFromKeepsEmpty(words, i, chunkSize, overlap) ==
  IF i >= Len(words) THEN <<>>
  ELSE LET to == IF i + chunkSize < Len(words) THEN i + chunkSize ELSE Len(words)
           chunk == Trim(Join(SubSeq(words, i + 1, to), " "))
       IN  <<chunk>> \o ChunksFromKeepsEmpty(words, i + chunkSize - overlap,
                                             chunkSize, overlap)

RECURSIVE ChunksFrom(_, _, _, _)
ChunksFrom(words, i, chunkSize, overlap) ==
  IF i >= Len(words) THEN <<>>
  ELSE LET to == IF i + chunkSize < Len(words) THEN i + chunkSize ELSE Len(words)
           chunk == Trim(Join(SubSeq(words, i + 1, to), " "))
           rest == ChunksFrom(words, i + chunkSize - overlap, chunkSize, overlap)
       IN  IF Len(chunk) > 0 THEN <<chunk>> \o rest ELSE rest

chunkText(text, chunkSize, overlap) ==
  ChunksFrom(Split(text, " "), 0, chunkSize, overlap)

----------------------------------------------------------------------------
(* Search results and their chunks *)

\* config.search.searchTemplates, the first of them
TemplateWhatIs ==
  <<"w", "h", "a", "t", " ", "i", "s", " ", Placeholder, "?">>
TemplateExplained ==
  <<Placeholder, " ", "e", "x", "p", "l", "a", "i", "n", "e", "d", " ",
    "s", "i", "m", "p", "l", "y">>
TemplateDefinition ==
  <<Placeholder, " ", "d", "e", "f", "i", "n", "i", "t", "i", "o", "n", " ",
    "a", "n", "d", " ", "o", "v", "e", "r", "v", "i", "e", "w">>
TemplateGuide ==
  <<Placeholder, " ", "b", "e", "g", "i", "n", "n", "e", "r", " ",
    "g", "u", "i", "d", "e">>
AllTemplates ==
  <<TemplateWhatIs, TemplateExplained, TemplateDefinition, TemplateGuide>>

\* The templates of a research run: at most MaxTemplates of them.
searchTemplates ==
  SubSeq(AllTemplates, 1,
         IF MaxTemplates < Len(AllTemplates) THEN MaxTemplates
         ELSE Len(AllTemplates))

\* config.rag.chunkSize and config.rag.chunkOverlap
chunkSize == 400
chunkOverlap == 50

\* The chunking of the configuration, and one with windows of two words.
ResearchConfigs ==
  {[chunkSize |-> chunkSize, chunkOverlap |-> chunkOverlap],
   [chunkSize |-> 2, chunkOverlap |-> 1]}

\* The mutant of getTemplateKey that takes the first word of the template
\* also when it is the placeholder.
getTemplateKeyFirstWord(template) ==
  LET parts == Split(template, " ")
      stripped == SelectSeq(ExpandPlaceholder(parts[1]), IsAlnum)
  IN  IF stripped = <<>> THEN <<"general">> ELSE stripped

\* getTemplateKey: the first word of the template, or the second when the
\* first is the placeholder, without its non-alphanumeric characters
getTemplateKey(template) ==
  LET parts == Split(template, " ")
      templateKey == IF parts[1] = <<Placeholder>> /\ Len(parts) > 1
                     THEN parts[2] ELSE parts[1]
      stripped == SelectSeq(ExpandPlaceholder(templateKey), IsAlnum)
  IN  IF stripped = <<>> THEN <<"general">> ELSE stripped

\* getSearchType: the first keyword the template includes
getSearchType(template) ==
  LET t == ExpandPlaceholder(template)
  IN  IF Includes(t, <<"e", "x", "p", "l", "a", "i", "n", "e", "d">>)
      THEN "explanation"
      ELSE IF Includes(t, <<"g", "u", "i", "d", "e">>) THEN "guide"
      ELSE IF Includes(t, <<"d", "e", "f", "i", "n", "i", "t", "i", "o", "n">>)
      THEN "definition"
      ELSE IF Includes(t, <<"h", "o", "w">>) THEN "howto"
      ELSE IF Includes(t, <<"e", "x", "a", "m", "p", "l", "e", "s">>)
      THEN "examples"
      ELSE IF \/ Includes(t, <<"v", "s">>)
              \/ Includes(t, <<"a", "l", "t", "e", "r", "n", "a", "t", "i",
                               "v", "e", "s">>)
      THEN "comparison"
      ELSE IF \/ Includes(t, <<"n", "e", "w", "s">>)
              \/ Includes(t, <<"u", "p", "d", "a", "t", "e">>)
      THEN "news"
      ELSE "general"

\* Organic results of a response: a complete one, one without a description,
\* one without a link and a display link.  An absent field is the empty text.
ResultRust ==
  [title |-> <<"R", "u", "s", "t">>, description |-> <<"a", " ", "b", " ", "c">>,
   link |-> <<"r", ".", "s", "/", "d", "o", "c">>, display_link |-> "rust-lang.org"]
ResultNoDescription ==
  [title |-> <<"R", "u", "s", "t">>, description |-> <<>>,
   link |-> <<"r", ".", "s", "/">>, display_link |-> "rust-lang.org"]
ResultNoLink ==
  [title |-> <<"A", "s">>, description |-> <<"t", "o">>,
   link |-> <<>>, display_link |-> ""]

\* The knowledge graph of a response; without a description and facts it
\* yields no chunk, as an absent one does.
NoKnowledge == [description |-> <<>>, facts |-> <<>>]
KnowledgeRust ==
  [description |-> <<"k", "g">>,
   facts |-> <<[key |-> <<"b", "y">>, value |-> <<"m", "e">>]>>]

\* Responses of the search provider: no results, one organic result, two
\* results (one skipped) with a knowledge graph, and a response whose organic
\* field is not an array.
DataEmpty ==
  [organicIsArray |-> TRUE, organic |-> <<>>, knowledge |-> NoKnowledge]
DataOrganic ==
  [organicIsArray |-> TRUE, organic |-> <<ResultRust>>, knowledge |-> NoKnowledge]
DataKnowledge ==
  [organicIsArray |-> TRUE, organic |-> <<ResultNoDescription, ResultNoLink>>,
   knowledge |-> KnowledgeRust]
DataMalformed ==
  [organicIsArray |-> FALSE, organic |-> <<>>, knowledge |-> KnowledgeRust]
SearchDatas == {DataEmpty, DataOrganic, DataKnowledge, DataMalformed}

\* The chunks of the organic result at index (from 0) of a response.
OrganicChunks(result, index, topic, topicId, searchTemplate, config) ==
  IF result.title = <<>> \/ result.description = <<>> THEN <<>>
  ELSE
    LET content == result.title \o <<"\n">> \o result.description
        textChunks == chunkText(content, config.chunkSize, config.chunkOverlap)
        templateKey == getTemplateKey(searchTemplate)
        segments == Split(result.link, "/")
        urlHash == IF result.link # <<>>
                   THEN Substring0(segments[Len(segments)], 8)
                   ELSE NumStr(index)
        source == IF result.display_link # "" THEN result.display_link
                  ELSE "unknown"
    IN  [c \in 1..Len(textChunks) |->
          [id |-> templateKey \o <<"_organic_">> \o NumStr(index) \o <<"_">>
                    \o NumStr(c - 1) \o <<"_">> \o urlHash,
           content |-> textChunks[c],
           source |-> source,
           url |-> result.link,
           type |-> "search_result",
           metadata |-> [topic |-> topic, topicId |-> topicId,
                         source |-> source, url |-> result.link,
                         title |-> result.title,
                         searchType |-> getSearchType(searchTemplate),
                         rank |-> index + 1, chunkIndex |-> c - 1]]]

\* The chunks of the knowledge graph of a response.
KnowledgeChunks(knowledge, topic, topicId, searchTemplate, config) ==
  LET knowledgeContent ==
        (IF knowledge.description # <<>> THEN <<knowledge.description>>
         ELSE <<>>)
        \o [f \in 1..Len(knowledge.facts) |->
              knowledge.facts[f].key \o <<":", " ">> \o knowledge.facts[f].value]
      textChunks == chunkText(Join(knowledgeContent, "\n"),
                              config.chunkSize, config.chunkOverlap)
  IN  IF Len(knowledgeContent) = 0 THEN <<>>
      ELSE [c \in 1..Len(textChunks) |->
             [id |-> getTemplateKey(searchTemplate) \o <<"_knowledge_graph_">>
                       \o NumStr(c - 1),
              content |-> textChunks[c],
              source |-> "Google Knowledge Graph",
              url |-> <<>>,
              type |-> "knowledge_graph",
              metadata |-> [topic |-> topic, topicId |-> topicId,
                            source |-> "Google Knowledge Graph", url |-> <<>>,
                            title |-> <<"Knowledge Graph">>,
                            searchType |-> "knowledge_graph",
                            rank |-> 0, chunkIndex |-> c - 1]]]

\* processSearchResults: the chunks of the organic results in result order,
\* then those of the knowledge graph; forEach throws on an organic field
\* that is not an array.
processSearchResults(searchResults, topic, topicId, searchTemplate, config) ==
  IF ~searchResults.organicIsArray
  THEN [threw |-> TRUE, chunks |-> <<>>]
  ELSE [threw |-> FALSE,
        chunks |->
          Flatten([index \in 1..Len(searchResults.organic) |->
                     OrganicChunks(searchResults.organic[index], index - 1,
                                   topic, topicId, searchTemplate, config)])
          \o KnowledgeChunks(searchResults.knowledge, topic, topicId,
                             searchTemplate, config)]

----------------------------------------------------------------------------
(* The result cache and the research loop *)

\* config.cache.expiryDays
expiryDays == 2

\* getCacheFilename, without the directory
getCacheFilename(searchQuery) ==
  Substring0(ToLowerCase(UnderscoreWs(
               SelectSeq(searchQuery, LAMBDA c : IsAlnum(c) \/ IsWs(c)))), 100)
    \o <<"_cache.json">>

\* hasCachedData: the file exists and is younger than expiryDays; a failing
\* file-system call is caught and counts as no file.
hasCachedData(files, searchQuery, fsOk) ==
  /\ fsOk
  /\ getCacheFilename(searchQuery) \in DOMAIN files
  /\ files[getCacheFilename(searchQuery)].age < expiryDays

\* saveCacheData: the file is written, or the failure is caught.
saveCacheData(files, searchQuery, data, fsOk) ==
  IF ~fsOk THEN files
  ELSE [f \in DOMAIN files \cup {getCacheFilename(searchQuery)} |->
          IF f = getCacheFilename(searchQuery)
          THEN [payload |-> [query |-> searchQuery, data |-> data], age |-> 0]
          ELSE files[f]]

\* What the search provider may do on one request.
ProviderFails == [ok |-> FALSE, data |-> DataEmpty]
ProviderOutcomes == {ProviderFails} \cup {[ok |-> TRUE, data |-> d] : d \in SearchDatas}

\* The mutant of fetchTopicData that asks the provider without looking into
\* the cache.
fetchTopicDataProviderFirst(searchQuery, files, env) ==
  IF ~env.provider.ok
  THEN [ok |-> FALSE, data |-> DataEmpty, files |-> files, providerCalls |-> 1]
  ELSE [ok |-> TRUE, data |-> env.provider.data,
        files |-> saveCacheData(files, searchQuery, env.provider.data,
                                env.saveOk),
        providerCalls |-> 1]

\* fetchTopicData: the cached payload when a fresh file loads, else the
\* response of the provider, saved to the cache; throws when the request
\* fails.  env.readOk and env.saveOk are the file-system calls.
fetchTopicData(searchQuery, files, env) ==
  IF hasCachedData(files, searchQuery, env.readOk)
  THEN [ok |-> TRUE, data |-> files[getCacheFilename(searchQuery)].payload.data,
        files |-> files, providerCalls |-> 0]
  ELSE IF ~env.provider.ok
       THEN [ok |-> FALSE, data |-> DataEmpty, files |-> files,
             providerCalls |-> 1]
       ELSE [ok |-> TRUE, data |-> env.provider.data,
             files |-> saveCacheData(files, searchQuery, env.provider.data,
                                     env.saveOk),
             providerCalls |-> 1]

\* Topic names a user may enter.
TopicNameRust == <<"R", "s">>
TopicNameGo == <<"g", "o", "!">>
TopicNames == {TopicNameRust, TopicNameGo}

\* What a cache directory may hold when the program starts: nothing, or the
\* response to the first query about a topic, one or two days old.
CacheStates ==
  {<<>>} \cup
  {[f \in {getCacheFilename(ReplaceTopic(TemplateWhatIs, TopicNameRust))} |->
      [payload |-> [query |-> ReplaceTopic(TemplateWhatIs, TopicNameRust),
                    data |-> DataOrganic],
       age |-> a]] : a \in {1, expiryDays}}

NoResearchResult ==
  [chunks |-> <<>>, searchResults |-> <<>>,
   metadata |-> [topic |-> <<>>, topicId |-> <<>>, searchTemplatesUsed |-> 0,
                 totalChunks |-> 0, sources |-> <<>>]]

\* researchTopic before it is called.  fetched is the log of its calls of
\* fetchTopicData: the query, whether the call returned, and what.
NoResearch ==
  [phase |-> "idle", topic |-> <<>>, topicId |-> <<>>,
   config |-> [chunkSize |-> chunkSize, chunkOverlap |-> chunkOverlap],
   i |-> 0, allChunks |-> <<>>, searchResults |-> <<>>, delays |-> 0,
   providerCalls |-> 0, fetched |-> <<>>, threw |-> FALSE,
   result |-> NoResearchResult,
   pc |-> "loop", readOk |-> TRUE, outstanding |-> <<>>, issued |-> <<>>]

\* The mutant of researchTemplate in which a failing template ends the run.
researchTemplateAborts(r, files, env) ==
  LET template == searchTemplates[r.i + 1]
      searchQuery == ReplaceTopic(template, r.topic)
      f == fetchTopicData(searchQuery, files, env)
      p == processSearchResults(f.data, r.topic, r.topicId, template, r.config)
      fetch == [query |-> searchQuery, ok |-> f.ok, data |-> f.data,
                readOk |-> env.readOk, providerCalls |-> f.providerCalls]
  IN  [files |-> f.files,
       research |->
         IF f.ok /\ ~p.threw
         THEN [r EXCEPT !.i = @ + 1,
                        !.delays = @ + (IF r.i > 0 THEN 1 ELSE 0),
                        !.providerCalls = @ + f.providerCalls,
                        !.fetched = Append(@, fetch),
                        !.searchResults = Append(@, f.data),
                        !.allChunks = @ \o p.chunks]
         ELSE [r EXCEPT !.phase = "done", !.threw = TRUE,
                        !.i = @ + 1,
                        !.delays = @ + (IF r.i > 0 THEN 1 ELSE 0),
                        !.providerCalls = @ + f.providerCalls,
                        !.fetched = Append(@, fetch)]]

\* One pass of the loop of researchTopic, for the template at index r.i: the
\* query is rendered, the delay waited, the results fetched and turned into
\* chunks; whatever is thrown is caught and the loop goes on.
researchTemplate(r, files, env) ==
  LET template == searchTemplates[r.i + 1]
      searchQuery == ReplaceTopic(template, r.topic)
      f == fetchTopicData(searchQuery, files, env)
      p == processSearchResults(f.data, r.topic, r.topicId, template, r.config)
  IN  [files |-> f.files,
       research |->
         [r EXCEPT !.i = @ + 1,
                   !.delays = @ + (IF r.i > 0 THEN 1 ELSE 0),
                   !.providerCalls = @ + f.providerCalls,
                   !.fetched = Append(@, [query |-> searchQuery, ok |-> f.ok,
                                          data |-> f.data,
                                          readOk |-> env.readOk,
                                          providerCalls |-> f.providerCalls]),
                   !.searchResults = IF f.ok THEN Append(@, f.data) ELSE @,
                   !.allChunks = IF f.ok /\ ~p.threw THEN @ \o p.chunks ELSE @]]

\* [...new Set(values)]: the distinct values in order of first occurrence
RECURSIVE UniqueFrom(_, _)
UniqueFrom(values, seen) ==
  IF values = <<>> THEN <<>>
  ELSE IF Head(values) \in seen THEN UniqueFrom(Tail(values), seen)
       ELSE <<Head(values)>> \o UniqueFrom(Tail(values), seen \cup {Head(values)})

\* What researchTopic returns after the loop.
researchResult(r) ==
  [chunks |-> r.allChunks,
   searchResults |-> r.searchResults,
   metadata |-> [topic |-> r.topic, topicId |-> r.topicId,
                 searchTemplatesUsed |-> Len(searchTemplates),
                 totalChunks |-> Len(r.allChunks),
                 sources |-> UniqueFrom([c \in 1..Len(r.allChunks) |->
                                           r.allChunks[c].source], {})]]

----------------------------------------------------------------------------
(* Topic ingestion: validateTopic, storeTopicChunks, handleTopicIngestion *)

\* A value that is not a string, as typeof sees it.
NotAString == <<"[object Object]">>

\* The length a trimmed topic name must stay below
TopicLengthLimit == 100

\* utils.validateTopic: a non-empty string whose trimmed length is above 0
\* and below 100
validateTopic(topic) ==
  /\ topic # <<>>
  /\ topic \notin {Null, NotAString}
  /\ Len(Trim(topic)) > 0
  /\ Len(Trim(topic)) < TopicLengthLimit

\* The metadata storeTopicChunks writes for a chunk.
StoredMetadata(chunk, topicId, time) ==
  [topic |-> chunk.metadata.topic, topicId |-> chunk.metadata.topicId,
   title |-> chunk.metadata.title, searchType |-> chunk.metadata.searchType,
   rank |-> chunk.metadata.rank, chunkIndex |-> chunk.metadata.chunkIndex,
   topic_id |-> topicId, stored_at |-> time, chunk_id |-> chunk.id,
   source |-> chunk.source, url |-> chunk.url, type |-> chunk.type]

\* The embeddings the loop of storeTopicChunks has pushed when it ends: one
\* per chunk, or those before the request that failed.
EmbeddingsOf(chunks, env) ==
  [c \in 1..(IF env.embedFailAt \in 1..Len(chunks)
             THEN env.embedFailAt - 1 ELSE Len(chunks)) |-> VecX]

\* the length check of storeTopicChunks
LengthMismatch(ids, embeddings, documents, metadatas) ==
  \/ Len(ids) # Len(embeddings)
  \/ Len(ids) # Len(documents)
  \/ Len(ids) # Len(metadatas)

\* The records of a collection after collection.add.
AddRecords(stored, ids, documents, metadatas) ==
  stored \o [c \in 1..Len(ids) |->
               [id |-> ids[c], content |-> documents[c],
                metadata |-> metadatas[c]]]

\* What storeTopicChunks hands back: added is the arguments of its
\* collection.add calls.
Stored(ok, cols, gc, embedCalls, added) ==
  [ok |-> ok, cols |-> cols, getCalls |-> gc.getCalls,
   createCalls |-> gc.createCalls, embedCalls |-> embedCalls,
   addCalls |-> Len(added), added |-> added]

\* The mutant of storeTopicChunks that skips a chunk whose embedding request
\* failed and writes without the length check.
storeTopicChunksSkipsFailed(cols, topicId, chunks, env, time) ==
  LET gc == getTopicCollection(cols, topicId, env.getOk, env.createOk)
      failed == env.embedFailAt \in 1..Len(chunks)
      embeddings == [c \in 1..(IF failed THEN Len(chunks) - 1 ELSE Len(chunks))
                       |-> VecX]
      ids == [c \in 1..Len(chunks) |-> topicId \o <<"_">> \o chunks[c].id]
      documents == [c \in 1..Len(chunks) |-> chunks[c].content]
      metadatas == [c \in 1..Len(chunks) |->
                      StoredMetadata(chunks[c], topicId, time)]
      args == [ids |-> ids, embeddings |-> embeddings,
               documents |-> documents, metadatas |-> metadatas]
  IN  IF ~gc.ok THEN Stored(FALSE, gc.cols, gc, 0, <<>>)
      ELSE IF ~env.addOk
           THEN Stored(FALSE, gc.cols, gc, Len(chunks), <<args>>)
           ELSE Stored(TRUE,
                       [gc.cols EXCEPT ![topicId] =
                          AddRecords(@, ids, documents, metadatas)],
                       gc, Len(chunks), <<args>>)

\* storeTopicChunks: the collection is fetched or created, one embedding is
\* requested per chunk in chunk order, the lengths are checked, and the
\* batch is written; whatever fails is thrown on.
storeTopicChunks(cols, topicId, chunks, env, time) ==
  LET gc == getTopicCollection(cols, topicId, env.getOk, env.createOk)
      failed == env.embedFailAt \in 1..Len(chunks)
      embeddings == EmbeddingsOf(chunks, env)
      ids == [c \in 1..Len(chunks) |-> topicId \o <<"_">> \o chunks[c].id]
      documents == [c \in 1..Len(chunks) |-> chunks[c].content]
      metadatas == [c \in 1..Len(chunks) |->
                      StoredMetadata(chunks[c], topicId, time)]
      args == [ids |-> ids, embeddings |-> embeddings,
               documents |-> documents, metadatas |-> metadatas]
  IN  IF ~gc.ok THEN Stored(FALSE, gc.cols, gc, 0, <<>>)
      ELSE IF failed
           THEN Stored(FALSE, gc.cols, gc, env.embedFailAt, <<>>)
      ELSE IF LengthMismatch(ids, embeddings, documents, metadatas)
           THEN Stored(FALSE, gc.cols, gc, Len(chunks), <<>>)
      ELSE IF ~env.addOk
           THEN Stored(FALSE, gc.cols, gc, Len(chunks), <<args>>)
           ELSE Stored(TRUE,
                       [gc.cols EXCEPT ![topicId] =
                          AddRecords(@, ids, documents, metadatas)],
                       gc, Len(chunks), <<args>>)

\* The mutant of switchToChat that sets the phase and the displayed topic
\* before it calls setTopic.
switchToChatEager(phase, shown, topicId, history, cols, arg, topicName, getOk) ==
  LET r == setTopic(topicId, history, cols, arg, getOk)
  IN  [currentPhase |-> "CHAT",
       displayedTopic |-> topicName,
       currentTopicSet |-> ~r.threw,
       currentTopicId |-> r.topicId,
       conversationHistory |-> r.history,
       threw |-> r.threw]

\* switchToChat: setTopic, and on success the phase and the displayed topic;
\* a failure of setTopic is caught and leaves both as they were.
switchToChat(phase, shown, topicId, history, cols, arg, topicName, getOk) ==
  LET r == setTopic(topicId, history, cols, arg, getOk)
  IN  [currentPhase |-> IF r.threw THEN phase ELSE "CHAT",
       displayedTopic |-> IF r.threw THEN shown ELSE topicName,
       currentTopicSet |-> ~r.threw,
       currentTopicId |-> r.topicId,
       conversationHistory |-> r.history,
       threw |-> r.threw]

\* No pure function has been called.
NoCalc == [op |-> "none"]

\* handleTopicIngestion before it is called.  before is the state it was
\* called in, the counters are the calls it made, added the arguments of
\* its collection.add calls, storeFailure the call that failed in the store.
NoIngest ==
  [step |-> "idle", input |-> Null, topicId |-> Null, outcome |-> "none",
   before |-> [currentPhase |-> "TOPIC_INGESTION", displayedTopic |-> Null,
               currentTopic |-> Null, currentTopicId |-> Null,
               conversationHistory |-> <<>>, collections |-> <<>>],
   topicIdCalls |-> 0, existsCalls |-> 0, researchCalls |-> 0,
   storeCalls |-> 0, embedCalls |-> 0, addCalls |-> 0, added |-> <<>>,
   storeFailure |-> "none"]

\* The RAG state and the phase as a handler of the command loop finds and
\* leaves them.
Session(phase, shown, topic, topicId, history, cols) ==
  [currentPhase |-> phase, displayedTopic |-> shown, currentTopic |-> topic,
   currentTopicId |-> topicId, conversationHistory |-> history,
   collections |-> cols]

\* The session after switchToChat(topicId, topicName) on session st.
Switched(st, cols, topicId, topicName, getOk) ==
  LET sw == switchToChat(st.currentPhase, st.displayedTopic, st.currentTopicId,
                         st.conversationHistory, cols, topicId, topicName, getOk)
  IN  Session(sw.currentPhase, sw.displayedTopic,
              IF sw.threw THEN st.currentTopic ELSE topicId,
              sw.currentTopicId, sw.conversationHistory, cols)

\* switchToExistingTopic(topicName): a topic that is not found is reported
\* and nothing changes; else switchToChat.  env.existsOk and env.switchOk
\* are the lookups of switchToExistingTopic and of setTopic.
switchToExistingTopic(topicName, st, env) ==
  LET topicId == generateTopicId(topicName)
      exists == topicExists(st.collections, topicId, env.existsOk)
      sw == switchToChat(st.currentPhase, st.displayedTopic, st.currentTopicId,
                         st.conversationHistory, st.collections, topicId,
                         topicName, env.switchOk)
  IN  [topicId |-> topicId, exists |-> exists, threw |-> exists /\ sw.threw,
       session |-> IF exists
                   THEN Switched(st, st.collections, topicId, topicName,
                                 env.switchOk)
                   ELSE st]

\* handleTopicIngestion up to its call of researchTopic: the input is
\* validated, the topic id derived and looked up; a topic that exists is
\* switched to.  env.existsOk and env.switchOk are the two lookups.
handleTopicIngestion(input, st, env) ==
  IF ~validateTopic(input)
  THEN [ingest |-> [NoIngest EXCEPT !.step = "done", !.input = input,
                                    !.outcome = "invalid", !.before = st],
        session |-> st]
  ELSE
    LET topicId == generateTopicId(input)
        exists == topicExists(st.collections, topicId, env.existsOk)
        called == [NoIngest EXCEPT !.input = input, !.topicId = topicId,
                                   !.before = st, !.topicIdCalls = 1,
                                   !.existsCalls = 1]
    IN  IF exists
        THEN [ingest |-> [called EXCEPT !.step = "done", !.outcome = "exists"],
              session |-> Switched(st, st.collections, topicId, input,
                                   env.switchOk)]
        ELSE [ingest |-> [called EXCEPT !.step = "researching",
                                        !.researchCalls = 1],
              session |-> st]

\* The mutant of afterResearch that stores whatever the research returned.
afterResearchStoresEmpty(ing, researchData, st, env, time) ==
  LET s == storeTopicChunks(st.collections, ing.topicId, researchData.chunks,
                            env.store, time)
      called == [ing EXCEPT !.step = "done", !.storeCalls = 1,
                            !.embedCalls = s.embedCalls,
                            !.addCalls = s.addCalls, !.added = s.added]
  IN  IF ~s.ok
      THEN [ingest |-> [called EXCEPT !.outcome = "failed"],
            session |-> [st EXCEPT !.collections = s.cols]]
      ELSE [ingest |-> [called EXCEPT !.outcome = "stored"],
            session |-> Switched(st, s.cols, ing.topicId, ing.input,
                                 env.switchOk)]

\* handleTopicIngestion after researchTopic returned: without chunks it
\* reports that no data was found; else the chunks are stored and the topic
\* switched to; a failure of the store is caught and reported.
afterResearch(ing, researchData, st, env, time) ==
  IF Len(researchData.chunks) = 0
  THEN [ingest |-> [ing EXCEPT !.step = "done", !.outcome = "no_data"],
        session |-> st]
  ELSE
    LET s == storeTopicChunks(st.collections, ing.topicId, researchData.chunks,
                              env.store, time)
        called == [ing EXCEPT !.step = "done", !.storeCalls = 1,
                              !.embedCalls = s.embedCalls,
                              !.addCalls = s.addCalls, !.added = s.added]
    IN  IF ~s.ok
        THEN [ingest |-> [called EXCEPT !.outcome = "failed"],
              session |-> [st EXCEPT !.collections = s.cols]]
        ELSE [ingest |-> [called EXCEPT !.outcome = "stored"],
              session |-> Switched(st, s.cols, ing.topicId, ing.input,
                                   env.switchOk)]

\* Topic names of 99, 100 and 101 characters.
LongName(n) == [c \in 1..n |-> "a"]

\* What a user may enter as a topic: two names, nothing, blanks, names at
\* the length limit, and a value that is not a string.
TopicInputs ==
  {TopicNameRust, TopicNameGo, <<>>, <<" ", " ">>, NotAString,
   LongName(TopicLengthLimit - 1), LongName(TopicLengthLimit),
   LongName(TopicLengthLimit + 1)}

\* Where storeTopicChunks and the switch after it fail, if they do: the
\* collection, the embedding of the first or the last chunk, the write, or
\* the lookup of setTopic.
StoreFailurePoints ==
  {"collection", "embedFirst", "embedLast", "add", "switch", "none"}

StoreEnv(fp, chunks) ==
  [store |-> [getOk |-> fp # "collection", createOk |-> fp # "collection",
              embedFailAt |-> IF fp = "embedFirst" THEN 1
                              ELSE IF fp = "embedLast" THEN Len(chunks)
                              ELSE 0,
              addOk |-> fp # "add"],
   switchOk |-> fp # "switch"]

----------------------------------------------------------------------------
(* The chat session *)

NoLast ==
  [op |-> "init", topicArg |-> Null, question |-> Null,
   allowModelKnowledge |-> FALSE, exists |-> FALSE, threw |-> FALSE,
   error |-> "", result |-> NoResult, calls |-> NoCalls, validated |-> FALSE,
   searchOk |-> FALSE, retrieved |-> 0, gen |-> "none", storeOk |-> TRUE,
   chatFailed |-> FALSE, lenBefore |-> 0, topicBefore |-> Null,
   prompt |-> <<>>]

NoRetr == [done |-> FALSE]

\* createRAGState(), a store that persisted from earlier runs
Init ==
  /\ currentTopic = Null
  /\ currentTopicId = Null
  /\ conversationHistory = <<>>
  /\ collections \in StoreStates
  /\ now = 0
  /\ last = NoLast
  /\ retr = NoRetr
  /\ research = NoResearch
  /\ cache = <<>>
  /\ currentPhase = "TOPIC_INGESTION"
  /\ displayedTopic = Null
  /\ ingest = NoIngest
  /\ calc = NoCalc

SetTopic ==
  \E arg \in TopicArgs, getOk \in BOOLEAN :
    \E r \in {setTopic(currentTopicId, conversationHistory, collections, arg,
                       getOk)} :
        /\ currentTopic' = IF r.threw THEN currentTopic ELSE r.topicId
        /\ currentTopicId' = r.topicId
        /\ conversationHistory' = r.history
        /\ last' = [NoLast EXCEPT
                      !.op = "setTopic", !.topicArg = arg, !.exists = r.exists,
                      !.threw = r.threw,
                      !.error = IF r.threw THEN TopicNotFoundError ELSE "",
                      !.calls.getCollection = 1, !.storeOk = getOk,
                      !.lenBefore = Len(conversationHistory),
                      !.topicBefore = currentTopicId]
        /\ UNCHANGED <<collections, now, retr, research, cache, cli, calc>>

\* One call of answerQuestion; the prompt that generateAnswer sent is kept in
\* last where withPrompt holds.
AnswerObserved(question, config, env, withPrompt) ==
  \E r \in {answerQuestion(currentTopicId, conversationHistory, collections,
                          config, question, env, now)} :
      /\ conversationHistory' = r.history
      /\ collections' = r.cols
      /\ now' = r.time
      /\ last' = [NoLast EXCEPT
                    !.op = "answerQuestion", !.question = question,
                    !.allowModelKnowledge = config.allowModelKnowledge,
                    !.threw = r.threw, !.error = r.error, !.result = r.result,
                    !.calls = r.calls, !.validated = r.validated,
                    !.searchOk = r.searchOk, !.retrieved = r.retrieved,
                    !.gen = r.gen,
                    !.prompt = IF withPrompt THEN r.prompt ELSE <<>>,
                    !.chatFailed = (r.calls.chat > 0 /\ ~env.gen.ok),
                    !.lenBefore = Len(conversationHistory),
                    !.topicBefore = currentTopicId]
      /\ UNCHANGED <<currentTopic, currentTopicId, retr, research, cache, cli, calc>>

AnswerWith(question, config, env) ==
  AnswerObserved(question, config, env, FALSE)

\* A call that returns before it reaches a collaborator.
ReturnsEarly(question) ==
  NoTopicSet(currentTopicId) \/ Trim(sanitizeInput(question)) = <<>>

\* answerQuestion in a long session: the store answers in stored order, the
\* collection call or the generation may fail.
AnswerQuestion ==
  /\ now + 2 <= MaxClock
  /\ \E question \in Questions :
       IF ReturnsEarly(question)
       THEN AnswerWith(question, DefaultConfig, DefaultEnv)
       ELSE \E allow \in BOOLEAN, fp \in {"collection", "none"}, g \in GenEnvs :
              LET config == [DefaultConfig EXCEPT !.allowModelKnowledge = allow]
                  stored == StoredAt(collections, currentTopicId)
              IN  AnswerWith(question, config,
                             MkEnv(fp,
                                   IF fp = "none"
                                   THEN StoredOrder(stored, config.maxRetrievedChunks, 10)
                                   ELSE <<>>,
                                   DefaultMismatch, g))

\* answerQuestion with every configuration and every behaviour of the
\* collaborators, in a session of at most MaxTurns answered turns.
AnswerQuestionAny ==
  /\ now + 2 <= 2 * MaxTurns
  /\ \E question \in Questions :
       IF ReturnsEarly(question)
       THEN AnswerWith(question, DefaultConfig, DefaultEnv)
       ELSE \E config \in ChatConfigs, fp \in FailurePoints, g \in GenEnvs :
              \E results \in IF fp = "none"
                             THEN ResultsOf(StoredAt(collections, currentTopicId),
                                            config.maxRetrievedChunks)
                             ELSE {<<>>},
                 m \in IF fp = "none" /\ config.enableTopicMismatchWarning
                       THEN MismatchEnvs ELSE {DefaultMismatch} :
                AnswerWith(question, config, MkEnv(fp, results, m, g))

ClearHistory ==
  /\ conversationHistory' = clearHistory(conversationHistory)
  /\ last' = [NoLast EXCEPT !.op = "clearHistory",
                               !.lenBefore = Len(conversationHistory),
                               !.topicBefore = currentTopicId]
  /\ UNCHANGED <<currentTopic, currentTopicId, collections, now, retr,
                 research, cache, cli, calc>>

\* cleanup_chromadb.ps1: the data volume is removed and a new store started
CleanupChromaDb ==
  /\ DOMAIN collections # {}
  /\ collections' = <<>>
  /\ last' = [NoLast EXCEPT !.op = "cleanup",
                               !.lenBefore = Len(conversationHistory),
                               !.topicBefore = currentTopicId]
  /\ UNCHANGED <<currentTopic, currentTopicId, conversationHistory, now, retr,
                 research, cache, cli, calc>>

Next == SetTopic \/ AnswerQuestion \/ ClearHistory \/ CleanupChromaDb

Spec == Init /\ [][Next]_vars

NextTurn == SetTopic \/ AnswerQuestionAny \/ ClearHistory \/ CleanupChromaDb

\* Short sessions, with every behaviour of the collaborators.
SpecTurn == Init /\ [][NextTurn]_vars

\* A second question that survives sanitizing, so that the turns of a
\* session differ.
QuestionOther == <<"b", "?">>
PromptQuestions == {QuestionValid, QuestionOther}

\* The answered turns of a session that keeps its prompts.
MaxPromptTurns == 4

\* answerQuestion in a session that keeps the prompt of every turn: either
\* mode, the store answers in stored order, the generation may fail.
AnswerQuestionPrompt ==
  /\ now + 2 <= 2 * MaxPromptTurns
  /\ \E question \in PromptQuestions, allow \in BOOLEAN, g \in GenEnvs :
       LET config == [DefaultConfig EXCEPT !.allowModelKnowledge = allow]
           stored == StoredAt(collections, currentTopicId)
       IN  AnswerObserved(question, config,
                          MkEnv("none",
                                StoredOrder(stored, config.maxRetrievedChunks, 10),
                                DefaultMismatch, g),
                          TRUE)

NextPrompt == SetTopic \/ AnswerQuestionPrompt \/ ClearHistory

\* Sessions of a few turns on different questions, with their prompts.
SpecPrompt == Init /\ [][NextPrompt]_vars

\* Context lengths at which one, two or all of the three blocks of a stored
\* collection fit.
ContextBudgets == {20, 40, maxContextLength}

\* answerQuestion with a context length that the retrieved chunks may
\* exceed: the store answers in any order, the prompt is kept.
AnswerQuestionBudget ==
  /\ now + 2 <= 2 * MaxTurns
  /\ \E maxLength \in ContextBudgets, n \in {1, maxRetrievedChunks} :
       LET config == [DefaultConfig EXCEPT !.maxContextLength = maxLength,
                                           !.maxRetrievedChunks = n]
       IN  \E results \in ResultsOf(StoredAt(collections, currentTopicId), n) :
             AnswerObserved(QuestionValid, config,
                            MkEnv("none", results, DefaultMismatch, DefaultGen),
                            TRUE)

NextBudget == SetTopic \/ AnswerQuestionBudget

\* One answered turn under a small context length.
SpecBudget == Init /\ [][NextBudget]_vars

\* One call of retrieveRelevantChunks on the store as it stands, with any
\* topic id, any configuration and every behaviour of the collaborators.  The
\* call creates the collection when the store has none for the topic.
RetrieveRelevantChunks ==
  /\ ~retr.done
  /\ \E topicId \in TopicIds, config \in Configs, fp \in FailurePoints :
       \E results \in IF fp = "none"
                      THEN ResultsOf(StoredAt(collections, topicId),
                                     config.maxRetrievedChunks)
                      ELSE {<<>>},
          m \in IF fp = "none" /\ config.enableTopicMismatchWarning
                THEN MismatchEnvs ELSE {DefaultMismatch} :
         \E env \in {MkEnv(fp, results, m, DefaultGen)} :
           \E out \in {retrieveRelevantChunks(collections, topicId, config, env)} :
             /\ retr' = [done |-> TRUE, cols |-> collections,
                         topicId |-> topicId, config |-> config, env |-> env,
                         out |-> out]
             /\ collections' = out.cols
             /\ UNCHANGED <<currentTopic, currentTopicId, conversationHistory,
                            now, last, research, cache, cli, calc>>

NextRetrieve == RetrieveRelevantChunks

\* A single retrieval, with every configuration of the warnings.
SpecRetrieve == Init /\ [][NextRetrieve]_vars

\* The program starts on a new vector store and a cache directory that may
\* hold a response of an earlier run.
InitResearch ==
  /\ currentTopic = Null
  /\ currentTopicId = Null
  /\ conversationHistory = <<>>
  /\ collections = <<>>
  /\ now = 0
  /\ last = NoLast
  /\ retr = NoRetr
  /\ research = NoResearch
  /\ cache \in CacheStates
  /\ currentPhase = "TOPIC_INGESTION"
  /\ displayedTopic = Null
  /\ ingest = NoIngest
  /\ calc = NoCalc

\* researchTopic(topic, config) is called: generateTopicId, then the loop.
ResearchTopic ==
  /\ research.phase = "idle"
  /\ \E topic \in TopicNames, config \in ResearchConfigs :
       research' = [NoResearch EXCEPT !.phase = "running", !.topic = topic,
                                      !.topicId = generateTopicId(topic),
                                      !.config = config]
  /\ UNCHANGED <<currentTopic, currentTopicId, conversationHistory,
                 collections, now, last, retr, cache, cli, calc>>

\* The loop of researchTopic handles its next template.  The provider is
\* asked only when the cache does not answer, and the response saved only
\* when there is one; a failing save is tried on one of the responses.
SearchTemplate ==
  /\ research.phase = "running"
  /\ research.i < Len(searchTemplates)
  /\ \E searchQuery \in {ReplaceTopic(searchTemplates[research.i + 1],
                                      research.topic)} :
       \E readOk \in IF getCacheFilename(searchQuery) \in DOMAIN cache
                     THEN BOOLEAN ELSE {TRUE} :
         \E provider \in IF hasCachedData(cache, searchQuery, readOk)
                         THEN {ProviderFails} ELSE ProviderOutcomes :
           \E saveOk \in IF provider.ok /\ provider.data = DataOrganic
                         THEN BOOLEAN ELSE {TRUE} :
             \E r \in {researchTemplate(research, cache,
                                        [readOk |-> readOk,
                                         provider |-> provider,
                                         saveOk |-> saveOk])} :
               /\ research' = r.research
               /\ cache' = r.files
  /\ UNCHANGED <<currentTopic, currentTopicId, conversationHistory,
                 collections, now, last, retr, cli, calc>>

\* The loop is over: researchTopic returns the chunks and the responses.
ResearchReturn ==
  /\ research.phase = "running"
  /\ research.i = Len(searchTemplates)
  /\ research' = [research EXCEPT !.phase = "done",
                                  !.result = researchResult(research)]
  /\ UNCHANGED <<currentTopic, currentTopicId, conversationHistory,
                 collections, now, last, retr, cache, cli, calc>>

NextResearch == ResearchTopic \/ SearchTemplate \/ ResearchReturn

\* One run of researchTopic over the search templates.
SpecResearch == InitResearch /\ [][NextResearch]_vars

\* A topic researched by an earlier run: its id "_go" is not the id of
\* TopicNameGo, its first query is another text than the first query about
\* TopicNameGo.
TopicNameBangGo == <<"!", " ", "g", "o">>

\* The cache directory after the earlier run: the response to its first
\* query, one or two days old.
CacheStatesOfOtherTopic ==
  {[f \in {getCacheFilename(ReplaceTopic(TemplateWhatIs, TopicNameBangGo))} |->
      [payload |-> [query |-> ReplaceTopic(TemplateWhatIs, TopicNameBangGo),
                    data |-> DataOrganic],
       age |-> a]] : a \in {1, expiryDays}}

\* The program starts with a cache directory written by runs on other topics.
InitRerun ==
  /\ currentTopic = Null
  /\ currentTopicId = Null
  /\ conversationHistory = <<>>
  /\ collections = <<>>
  /\ now = 0
  /\ last = NoLast
  /\ retr = NoRetr
  /\ research = NoResearch
  /\ cache \in CacheStates \cup CacheStatesOfOtherTopic
  /\ currentPhase = "TOPIC_INGESTION"
  /\ displayedTopic = Null
  /\ ingest = NoIngest
  /\ calc = NoCalc

\* One run of researchTopic on a cache directory of earlier runs.
SpecRerun == InitRerun /\ [][NextResearch]_vars

\* The mutant of awaitProvider that goes on to the next template while the
\* request is outstanding.
awaitProviderNever(r, readOk) ==
  [r EXCEPT !.pc = "loop", !.i = @ + 1,
            !.outstanding = Append(@, r.i + 1),
            !.issued = Append(@, r.i + 1)]

\* await fetch(...) in fetchTopicData: the request for template i + 1 is
\* outstanding and researchTopic is suspended until it returns or fails.
awaitProvider(r, readOk) ==
  [r EXCEPT !.pc = "awaiting", !.readOk = readOk,
            !.outstanding = Append(@, r.i + 1),
            !.issued = Append(@, r.i + 1)]

\* The query of the template the loop of researchTopic stands at.
CurrentQuery == ReplaceTopic(searchTemplates[research.i + 1], research.topic)

\* The loop stands before the fetch of its next template: at the first
\* template at once, at a later one when the delay has been waited.
AtFetch ==
  /\ research.phase = "running"
  /\ research.i < Len(searchTemplates)
  /\ research.pc = IF research.i > 0 THEN "delayed" ELSE "loop"

\* The delay between two requests has been waited.
AwaitDelay ==
  /\ research.phase = "running"
  /\ research.i < Len(searchTemplates)
  /\ research.i > 0
  /\ research.pc = "loop"
  /\ research' = [research EXCEPT !.pc = "delayed"]
  /\ UNCHANGED <<currentTopic, currentTopicId, conversationHistory,
                 collections, now, last, retr, cache, cli, calc>>

\* fetchTopicData answers from the cache, and the loop goes on.
FetchFromCache ==
  /\ AtFetch
  /\ hasCachedData(cache, CurrentQuery, TRUE)
  /\ \E r \in {researchTemplate(research, cache,
                                [readOk |-> TRUE, provider |-> ProviderFails,
                                 saveOk |-> TRUE])} :
       /\ research' = [r.research EXCEPT !.pc = "loop"]
       /\ cache' = r.files
  /\ UNCHANGED <<currentTopic, currentTopicId, conversationHistory,
                 collections, now, last, retr, cli, calc>>

\* fetchTopicData finds nothing to read in the cache and sends the request
\* to the search provider.
CallProvider ==
  /\ AtFetch
  /\ \E readOk \in BOOLEAN :
       /\ ~hasCachedData(cache, CurrentQuery, readOk)
       /\ research' = awaitProvider(research, readOk)
  /\ UNCHANGED <<currentTopic, currentTopicId, conversationHistory,
                 collections, now, last, retr, cache, cli, calc>>

\* The request returns or fails; the response is saved and processed and
\* the loop goes on.
ProviderReturns ==
  /\ research.phase = "running"
  /\ research.pc = "awaiting"
  /\ \E provider \in ProviderOutcomes :
       \E r \in {researchTemplate(research, cache,
                                  [readOk |-> research.readOk,
                                   provider |-> provider, saveOk |-> TRUE])} :
         /\ research' = [r.research EXCEPT !.pc = "loop",
                                           !.outstanding = <<>>]
         /\ cache' = r.files
  /\ UNCHANGED <<currentTopic, currentTopicId, conversationHistory,
                 collections, now, last, retr, cli, calc>>

NextCalls ==
  \/ ResearchTopic
  \/ AwaitDelay
  \/ FetchFromCache
  \/ CallProvider
  \/ ProviderReturns
  \/ ResearchReturn

\* One run of researchTopic, a step at each point where it is suspended.
SpecCalls == InitResearch /\ [][NextCalls]_vars

\* The program starts on a vector store that is empty or holds one topic.
InitIngest ==
  /\ currentTopic = Null
  /\ currentTopicId = Null
  /\ conversationHistory = <<>>
  /\ collections \in {s \in StoreStates : TopicGo \notin DOMAIN s}
  /\ now = 0
  /\ last = NoLast
  /\ retr = NoRetr
  /\ research = NoResearch
  /\ cache = <<>>
  /\ currentPhase = "TOPIC_INGESTION"
  /\ displayedTopic = Null
  /\ ingest = NoIngest
  /\ calc = NoCalc

CurrentSession ==
  Session(currentPhase, displayedTopic, currentTopic, currentTopicId,
          conversationHistory, collections)

\* The session st becomes the state.
Becomes(st) ==
  /\ currentPhase' = st.currentPhase
  /\ displayedTopic' = st.displayedTopic
  /\ currentTopic' = st.currentTopic
  /\ currentTopicId' = st.currentTopicId
  /\ conversationHistory' = st.conversationHistory
  /\ collections' = st.collections

\* The command loop hands an input to handleTopicIngestion, which returns
\* or goes on to research the topic.
HandleTopicIngestion ==
  /\ currentPhase = "TOPIC_INGESTION"
  /\ ingest.step # "researching"
  /\ research.phase = "idle"
  /\ \E input \in TopicInputs, existsOk \in BOOLEAN :
       \E switchOk \in IF existsOk THEN BOOLEAN ELSE {TRUE} :
         \E r \in {handleTopicIngestion(input, CurrentSession,
                                        [existsOk |-> existsOk,
                                         switchOk |-> switchOk])} :
           /\ ingest' = r.ingest
           /\ Becomes(r.session)
           /\ research' = IF r.ingest.step = "researching"
                          THEN [NoResearch EXCEPT
                                  !.phase = "running", !.topic = input,
                                  !.topicId = generateTopicId(input)]
                          ELSE research
  /\ UNCHANGED <<now, last, retr, cache, calc>>

\* The loop of the researchTopic call of an ingestion handles its next
\* template: the provider fails, finds nothing or finds one result.
IngestSearchTemplate ==
  /\ ingest.step = "researching"
  /\ research.phase = "running"
  /\ research.i < Len(searchTemplates)
  /\ \E provider \in {ProviderFails, [ok |-> TRUE, data |-> DataEmpty],
                      [ok |-> TRUE, data |-> DataOrganic]} :
       \E r \in {researchTemplate(research, cache,
                                  [readOk |-> TRUE, provider |-> provider,
                                   saveOk |-> TRUE])} :
         /\ research' = r.research
         /\ cache' = r.files
  /\ UNCHANGED <<currentTopic, currentTopicId, conversationHistory,
                 collections, now, last, retr, cli, calc>>

\* researchTopic has returned to handleTopicIngestion.
StoreAndSwitch ==
  /\ ingest.step = "researching"
  /\ research.phase = "done"
  /\ \E fp \in IF Len(research.result.chunks) = 0 THEN {"none"}
               ELSE StoreFailurePoints :
       \E r \in {afterResearch(ingest, research.result, CurrentSession,
                               StoreEnv(fp, research.result.chunks), now)} :
         /\ ingest' = [r.ingest EXCEPT !.storeFailure = fp]
         /\ Becomes(r.session)
  /\ UNCHANGED <<now, last, retr, research, cache, calc>>

\* A question in the chat phase, answered from the store.
HandleChatQuestion ==
  /\ currentPhase = "CHAT"
  /\ research.phase = "idle"
  /\ now + 2 <= 2 * MaxTurns
  /\ AnswerWith(QuestionValid, DefaultConfig,
                MkEnv("none",
                      StoredOrder(StoredAt(collections, currentTopicId),
                                  DefaultConfig.maxRetrievedChunks, 10),
                      DefaultMismatch, DefaultGen))

\* The names the switch command is given: the command line is lowercased.
SwitchNames == {ToLowerCase(TopicNameRust), ToLowerCase(TopicNameGo)}

\* The switch command, in either phase.
SwitchToExistingTopic ==
  /\ ingest.step # "researching"
  /\ \E topicName \in SwitchNames, existsOk \in BOOLEAN :
       \E switchOk \in IF existsOk THEN BOOLEAN ELSE {TRUE} :
         \E r \in {switchToExistingTopic(topicName, CurrentSession,
                                         [existsOk |-> existsOk,
                                          switchOk |-> switchOk])} :
           /\ Becomes(r.session)
           /\ last' = [NoLast EXCEPT
                         !.op = "switch", !.topicArg = r.topicId,
                         !.exists = r.exists, !.threw = r.threw,
                         !.calls.getCollection = IF r.exists THEN 2 ELSE 1,
                         !.lenBefore = Len(conversationHistory),
                         !.topicBefore = currentTopicId]
  /\ UNCHANGED <<now, retr, research, cache, ingest, calc>>

\* The back command.
Back ==
  /\ currentPhase = "CHAT"
  /\ currentPhase' = "TOPIC_INGESTION"
  /\ displayedTopic' = Null
  /\ UNCHANGED <<currentTopic, currentTopicId, conversationHistory,
                 collections, now, last, retr, research, cache, ingest, calc>>

NextIngest ==
  \/ HandleTopicIngestion
  \/ IngestSearchTemplate
  \/ ResearchReturn
  \/ StoreAndSwitch
  \/ HandleChatQuestion
  \/ Back

\* Topic ingestion from the command loop, after chats on a stored topic.
SpecIngest == InitIngest /\ [][NextIngest]_vars

NextSwitch == SwitchToExistingTopic \/ HandleChatQuestion \/ Back

\* The switch command between chats on the topics of a store that persisted.
SpecSwitch == Init /\ [][NextSwitch]_vars

\* The switch command while no topic has been researched in the session.
SwitchBeforeResearch ==
  /\ research.phase = "idle"
  /\ SwitchToExistingTopic

NextCli == NextIngest \/ SwitchBeforeResearch

\* The command loop: topics entered, the switch command, questions, back.
SpecCli == InitIngest /\ [][NextCli]_vars

----------------------------------------------------------------------------
(* Single calls of the pure functions *)

\* Chunk lists handed to storeTopicChunks: the chunks of one search result,
\* as one window and as three windows of two words, and no chunks.
StoreChunkLists ==
  {processSearchResults(DataOrganic, TopicNameRust, TopicRust, TemplateWhatIs,
                        config).chunks : config \in ResearchConfigs}
    \cup {<<>>}

\* The mutant of awaitEmbedding that requests the embedding of the next chunk
\* without waiting for the one it has requested.
awaitEmbeddingNever(c) ==
  [c EXCEPT !.pc = "embed",
            !.requests = Append(@, c.chunks[Len(c.requests) + 1].content),
            !.embeddings = Append(@, VecX),
            !.outstanding = @ + 1]

\* await embeddingFunction.generate([chunk.content]): one request with the
\* content of the next chunk is outstanding, and storeTopicChunks is
\* suspended until it returns or fails.
awaitEmbedding(c) ==
  [c EXCEPT !.pc = "awaiting",
            !.requests = Append(@, c.chunks[Len(c.requests) + 1].content),
            !.outstanding = @ + 1]

\* storeTopicChunks is called and gets or creates the collection.
StoreTopicChunks ==
  /\ calc.op = "none"
  /\ \E topicId \in TopicIds, chunks \in StoreChunkLists, getOk \in BOOLEAN :
       \E createOk \in IF getOk /\ topicId \in DOMAIN collections
                       THEN {TRUE} ELSE BOOLEAN :
         \E gc \in {getTopicCollection(collections, topicId, getOk, createOk)} :
           /\ calc' = [op |-> "storeTopicChunks", topicId |-> topicId,
                       chunks |-> chunks, cols |-> collections,
                       getOk |-> getOk, createOk |-> createOk,
                       pc |-> IF gc.ok THEN "embed" ELSE "threw",
                       requests |-> <<>>, embeddings |-> <<>>,
                       outstanding |-> 0, embedFailed |-> FALSE,
                       added |-> <<>>]
           /\ collections' = gc.cols
  /\ UNCHANGED <<currentTopic, currentTopicId, conversationHistory, now, last,
                 retr, research, cache, cli>>

\* The loop of storeTopicChunks requests the embedding of its next chunk.
RequestEmbedding ==
  /\ calc.op = "storeTopicChunks"
  /\ calc.pc = "embed"
  /\ Len(calc.requests) < Len(calc.chunks)
  /\ calc' = awaitEmbedding(calc)
  /\ UNCHANGED <<currentTopic, currentTopicId, conversationHistory,
                 collections, now, last, retr, research, cache, cli>>

\* The embedding request returns, and the embedding is pushed, or it fails,
\* and storeTopicChunks throws.
EmbeddingReturns ==
  /\ calc.op = "storeTopicChunks"
  /\ calc.pc = "awaiting"
  /\ \E ok \in BOOLEAN :
       calc' = IF ok
               THEN [calc EXCEPT !.pc = "embed", !.outstanding = @ - 1,
                                 !.embeddings = Append(@, VecX)]
               ELSE [calc EXCEPT !.pc = "threw", !.outstanding = @ - 1,
                                 !.embedFailed = TRUE]
  /\ UNCHANGED <<currentTopic, currentTopicId, conversationHistory,
                 collections, now, last, retr, research, cache, cli>>

\* After the loop: the arrays are built, their lengths checked, and the
\* batch written with one collection.add, which may fail.
AddToCollection ==
  /\ calc.op = "storeTopicChunks"
  /\ calc.pc = "embed"
  /\ Len(calc.requests) = Len(calc.chunks)
  /\ LET chunks == calc.chunks
         topicId == calc.topicId
         ids == [c \in 1..Len(chunks) |-> topicId \o <<"_">> \o chunks[c].id]
         documents == [c \in 1..Len(chunks) |-> chunks[c].content]
         metadatas == [c \in 1..Len(chunks) |->
                         StoredMetadata(chunks[c], topicId, now)]
         args == [ids |-> ids, embeddings |-> calc.embeddings,
                  documents |-> documents, metadatas |-> metadatas]
     IN  IF LengthMismatch(ids, calc.embeddings, documents, metadatas)
         THEN /\ calc' = [calc EXCEPT !.pc = "threw"]
              /\ UNCHANGED collections
         ELSE \E addOk \in BOOLEAN :
                /\ calc' = [calc EXCEPT !.pc = IF addOk THEN "done" ELSE "threw",
                                        !.added = Append(@, args)]
                /\ collections' =
                     IF addOk
                     THEN [collections EXCEPT ![topicId] =
                             AddRecords(@, ids, documents, metadatas)]
                     ELSE collections
  /\ UNCHANGED <<currentTopic, currentTopicId, conversationHistory, now, last,
                 retr, research, cache, cli>>

NextStore ==
  \/ StoreTopicChunks
  \/ RequestEmbedding
  \/ EmbeddingReturns
  \/ AddToCollection

\* One call of storeTopicChunks, a step at each point where it is suspended.
SpecStore == Init /\ [][NextStore]_vars

\* Everything but calc.
program ==
  <<currentTopic, currentTopicId, conversationHistory, collections, now, last,
    retr, research, cache, currentPhase, displayedTopic, ingest>>

\* The program has started, on a new store and an empty cache directory.
InitPure ==
  /\ currentTopic = Null
  /\ currentTopicId = Null
  /\ conversationHistory = <<>>
  /\ collections = <<>>
  /\ now = 0
  /\ last = NoLast
  /\ retr = NoRetr
  /\ research = NoResearch
  /\ cache = <<>>
  /\ currentPhase = "TOPIC_INGESTION"
  /\ displayedTopic = Null
  /\ ingest = NoIngest
  /\ calc = NoCalc

\* The sequences over S of length at most n.
SeqsUpTo(S, n) == UNION {[1..k -> S] : k \in 0..n}

\* A retrieved chunk: a stored record at a distance.
ChunkAt(rec, d) ==
  [content |-> rec.content, metadata |-> rec.metadata, distance |-> d,
   id |-> rec.id]

\* Stored records whose contents agree up to case, up to the width of a run
\* of whitespace, or in their first 100 characters; and one that differs from
\* another in its character 100.
RecSpaced ==
  [id |-> "how_organic_0_0_a", content |-> <<"a", "\t", "s">>,
   metadata |-> [source |-> "a.example", type |-> "search_result"]]
RecLongX ==
  [id |-> "how_organic_1_0_x",
   content |-> [c \in 1..FingerprintLength |-> "b"] \o <<"x">>,
   metadata |-> [source |-> "x.example", type |-> "search_result"]]
RecLongY ==
  [id |-> "how_organic_2_0_y",
   content |-> [c \in 1..FingerprintLength |-> "b"] \o <<"y">>,
   metadata |-> [source |-> "y.example", type |-> "search_result"]]
RecShortY ==
  [id |-> "how_organic_3_0_y",
   content |-> [c \in 1..(FingerprintLength - 1) |-> "b"] \o <<"y">>,
   metadata |-> [source |-> "y.example", type |-> "search_result"]]

DedupInputs ==
  {ChunkAt(r, 10) : r \in {RecRust, RecRustDup, RecKnowledge, RecSpaced,
                           RecLongX, RecLongY, RecShortY}}

\* deduplicateChunks is called on a chunk list.
Deduplicate ==
  /\ calc.op = "none"
  /\ \E chunks \in SeqsUpTo(DedupInputs, MaxChunks) :
       calc' = [op |-> "deduplicateChunks", input |-> chunks,
                output |-> deduplicateChunks(chunks)]
  /\ UNCHANGED program

\* Chunks of both types with one-character sources: a knowledge graph entry
\* farther away than the search results, two search results at the same
\* distance, and a content that ends in whitespace.
CtxKnowledge ==
  [id |-> "what_knowledge_graph_0", content |-> <<"k">>, distance |-> 50,
   metadata |-> [source |-> "g", type |-> "knowledge_graph"]]
CtxNear ==
  [id |-> "what_organic_0_0", content |-> <<"x", "y", "z">>, distance |-> 10,
   metadata |-> [source |-> "a", type |-> "search_result"]]
CtxFar ==
  [id |-> "what_organic_1_0", content |-> <<"x", " ", "\n">>, distance |-> 30,
   metadata |-> [source |-> "b", type |-> "search_result"]]
CtxTied ==
  [id |-> "what_organic_2_0", content |-> <<"w">>, distance |-> 30,
   metadata |-> [source |-> "c", type |-> "search_result"]]

ContextInputs == {CtxKnowledge, CtxNear, CtxFar, CtxTied}

\* Context lengths: nothing fits, one block just does not or just does, two
\* blocks just do not or just do, and the configured length.
ContextLengths == {0, 12, 13, 14, 15, 27, 28, 30, maxContextLength}

\* buildContext is called on a chunk list.
BuildContext ==
  /\ calc.op = "none"
  /\ \E chunks \in SeqsUpTo(ContextInputs, MaxChunks),
        maxLength \in ContextLengths :
       calc' = [op |-> "buildContext", input |-> chunks,
                maxLength |-> maxLength,
                output |-> buildContext(chunks, maxLength)]
  /\ UNCHANGED program

\* Topic names: the name of the scenario, names with punctuation and with
\* whitespace of several kinds at the ends and inside, the empty name, and
\* names of 50 and of 51 letters.
NameRustLanguage ==
  <<"R", "u", "s", "t", " ", "p", "r", "o", "g", "r", "a", "m", "m", "i", "n",
    "g", " ", "l", "a", "n", "g", "u", "a", "g", "e">>
IdNames ==
  {NameRustLanguage, TopicNameRust, TopicNameGo, <<>>,
   <<" ", "R", "s", " ", "\t", "2", "\n">>,
   <<"A", "-", "b", " ", "!", " ", "c">>,
   LongName(TopicIdLimit), LongName(TopicIdLimit + 1)}

\* generateTopicId is called on a topic name.
GenerateTopicId ==
  /\ calc.op = "none"
  /\ \E topic \in IdNames :
       calc' = [op |-> "generateTopicId", input |-> topic,
                output |-> generateTopicId(topic),
                output50 |-> generateTopicId50(topic)]
  /\ UNCHANGED program

\* Texts to chunk: the six words of the example, three words, words apart
\* by two spaces, blanks at the ends, a tab inside and after a word, a new
\* line as a word of its own, the empty text and a blank one.
ChunkTexts ==
  {<<"a", " ", "b", " ", "c", " ", "d", " ", "e", " ", "f">>,
   <<"a", " ", "b", " ", "c">>,
   <<"a", " ", " ", "b">>,
   <<" ", "a", " ", "b", " ">>,
   <<"a", "\t", "b", " ", "c", "\t">>,
   <<"a", " ", "\n", " ", "b">>,
   <<"a">>,
   <<>>,
   <<" ", " ">>}

\* chunkText is called with an overlap smaller than the chunk size; the loop
\* of a call with a larger overlap never advances.
ChunkText ==
  /\ calc.op = "none"
  /\ \E text \in ChunkTexts, size \in 1..MaxWindow :
       \E overlap \in 0..(size - 1) :
         calc' = [op |-> "chunkText", input |-> text, chunkSize |-> size,
                  overlap |-> overlap,
                  output |-> chunkText(text, size, overlap)]
  /\ UNCHANGED program

\* The words of the command loop.
ExitWords == {<<"q", "u", "i", "t">>, <<"e", "x", "i", "t">>, <<"b", "y", "e">>}
CommandWords == {<<"l", "i", "s", "t">>, <<"s", "t", "a", "t", "s">>, <<"s", "w", "i", "t", "c", "h">>, <<"c", "l", "e", "a", "r">>, <<"b", "a", "c", "k">>}

\* The mutant of handleSpecialCommands that compares the word as typed.
handleSpecialCommandsAsTyped(input) ==
  LET parts == Split(input, " ")
      command == parts[1]
      args == Tail(parts)
  IN  IF command \notin CommandWords
      THEN [consumed |-> FALSE, command |-> <<>>, usage |-> FALSE, arg |-> <<>>]
      ELSE [consumed |-> TRUE, command |-> command,
            usage |-> command \in {<<"s", "t", "a", "t", "s">>, <<"s", "w", "i", "t", "c", "h">>} /\ Len(args) = 0,
            arg |-> Join(args, " ")]

\* handleSpecialCommands: the first word of the lowercased line, split at
\* single spaces, selects the command; stats and switch are given the other
\* words joined by spaces, or print their usage when there are none.  What
\* it returns is consumed.
handleSpecialCommands(input) ==
  LET parts == Split(ToLowerCase(input), " ")
      command == parts[1]
      args == Tail(parts)
  IN  IF command \notin CommandWords
      THEN [consumed |-> FALSE, command |-> <<>>, usage |-> FALSE, arg |-> <<>>]
      ELSE [consumed |-> TRUE, command |-> command,
            usage |-> command \in {<<"s", "t", "a", "t", "s">>, <<"s", "w", "i", "t", "c", "h">>} /\ Len(args) = 0,
            arg |-> Join(args, " ")]

\* One pass of interactionLoop on a line: what the line is handed to.
interactionLoop(input, phase) ==
  LET trimmedInput == Trim(input)
      special == handleSpecialCommands(trimmedInput)
      route(to, command, arg) == [to |-> to, command |-> command, arg |-> arg]
  IN  IF trimmedInput = <<>> THEN route("continue", <<>>, <<>>)
      ELSE IF ToLowerCase(trimmedInput) \in ExitWords
      THEN route("break", <<>>, <<>>)
      ELSE IF special.consumed
      THEN route("handleSpecialCommands", special.command, special.arg)
      ELSE IF phase = "TOPIC_INGESTION"
      THEN route("handleTopicIngestion", <<>>, trimmedInput)
      ELSE IF phase = "CHAT"
      THEN route("handleChatQuestion", <<>>, trimmedInput)
      ELSE route("continue", <<>>, <<>>)

\* Lines a user may type: commands in either case, with and without
\* arguments and blanks around them, exit words, blank lines, and lines that
\* only start like a command or hold one after a tab or in a later word.
InputLines ==
  {<<"l", "i", "s", "t">>,
   <<"L", "I", "S", "T">>,
   <<"l", "i", "s", "t", " ", "a", "l", "l">>,
   <<" ", "L", "i", "s", "t", " ">>,
   <<"s", "t", "a", "t", "s">>,
   <<"s", "t", "a", "t", "s", " ", "r", "s">>,
   <<"S", "w", "i", "t", "c", "h", " ", "R", "s">>,
   <<"s", "w", "i", "t", "c", "h">>,
   <<"c", "l", "e", "a", "r">>,
   <<"B", "a", "c", "k">>,
   <<"b", "a", "c", "k", " ", "t", "o", " ", "r", "s">>,
   <<"q", "u", "i", "t">>,
   <<"E", "X", "I", "T">>,
   <<" ", "b", "y", "e">>,
   <<"q", "u", "i", "t", " ", "n", "o", "w">>,
   <<>>,
   <<" ", "\t">>,
   <<"l", "i", "s", "t", "i", "n", "g">>,
   <<"l", "i", "s", "t", "\t", "a", "l", "l">>,
   <<"R", "s">>,
   <<" ", "a">>,
   <<"w", "h", "a", "t", " ", "i", "s", " ", "b", "a", "c", "k">>,
   <<"b", "a", "c", "k", "\t", "u", "p">>}

\* The loop reads a line in one of the two phases.
InteractionLoop ==
  /\ calc.op = "none"
  /\ \E input \in InputLines, phase \in {"TOPIC_INGESTION", "CHAT"} :
       calc' = [op |-> "interactionLoop", input |-> input, phase |-> phase,
                output |-> interactionLoop(input, phase)]
  /\ UNCHANGED program

NextPure ==
  \/ Deduplicate
  \/ BuildContext
  \/ GenerateTopicId
  \/ ChunkText
  \/ InteractionLoop

SpecPure == InitPure /\ [][NextPure]_vars

----------------------------------------------------------------------------
(* The conversation state machine *)

Answered == last.op = "answerQuestion"

\* C1: between operations, after any sequence of setTopic, answerQuestion and
\* clearHistory, the history holds at most 20 entries.
C1_HistoryWithinCap == Len(conversationHistory) <= 20

\* A turn was answered on a full history: the oldest exchange was dropped.
C1_Witness ==
  /\ Answered /\ last.gen = "ok" /\ last.lenBefore = 20
  /\ Len(conversationHistory) = 20
  /\ conversationHistory[1].timestamp = now - 20

\* C2: the topic changes only in a setTopic call whose existence check found
\* the collection of its argument in the store; a setTopic call whose check
\* answers false or fails throws and leaves the topic as it was.
C2_TopicSetOnlyWhenConfirmed ==
  [][/\ (currentTopicId' # currentTopicId \/ currentTopic' # currentTopic)
          => last'.op = "setTopic"
     /\ (last'.op = "setTopic" /\ ~last'.threw)
          => /\ last'.topicArg \in DOMAIN collections
             /\ last'.storeOk
             /\ last'.calls.getCollection = 1
             /\ currentTopicId' = last'.topicArg
             /\ currentTopic' = last'.topicArg
     /\ (last'.op = "setTopic"
         /\ (last'.topicArg \notin DOMAIN collections \/ ~last'.storeOk))
          => /\ last'.threw
             /\ currentTopicId' = currentTopicId
             /\ currentTopic' = currentTopic]_vars

\* The topic was changed from one stored topic to another.
C2_Witness ==
  /\ last.op = "setTopic" /\ ~last.threw
  /\ last.topicBefore \in TopicIds
  /\ currentTopicId \in TopicIds \ {last.topicBefore}

\* C3: every successful setTopic leaves the history empty.
C3_SetTopicEmptiesHistory ==
  [][(last'.op = "setTopic" /\ ~last'.threw) => conversationHistory' = <<>>]_vars

\* The current topic was set again while its history was not empty.
C3_Witness ==
  /\ last.op = "setTopic" /\ ~last.threw
  /\ last.lenBefore > 0
  /\ last.topicBefore = currentTopicId
  /\ conversationHistory = <<>>

\* C4: answerQuestion without a topic throws the no-topic error, calls no
\* collaborator and changes nothing.
C4_NoTopicFailsFirst ==
  [][(last'.op = "answerQuestion" /\ currentTopicId \in {Null, <<>>})
       => /\ last'.threw
          /\ last'.error = NoTopicError
          /\ last'.calls = NoCalls
          /\ UNCHANGED <<currentTopic, currentTopicId, conversationHistory,
                         collections, now>>]_vars

\* A question was asked with topics in the store and none set.
C4_Witness ==
  /\ Answered /\ last.threw /\ last.error = NoTopicError
  /\ currentTopicId = Null
  /\ DOMAIN collections # {}

\* The history after a turn that recorded question q and answer a at time t.
TurnRecorded(history, q, a, t) ==
  SliceLast(history \o <<[role |-> "user", content |-> q, timestamp |-> t],
                         [role |-> "assistant", content |-> a,
                          timestamp |-> t + 1]>>, 20)

\* C5 as stated: every answerQuestion call that returns appends the user entry
\* with the sanitized question, then the assistant entry with the answer, and
\* trims to the cap.
C5_EveryReturnRecorded ==
  [][(last'.op = "answerQuestion" /\ ~last'.threw)
       => conversationHistory' =
            TurnRecorded(conversationHistory, StripAngles(Trim(last'.question)),
                         last'.result.answer, now)]_vars

\* C5 amended: a call that returns a generated answer records the turn so;
\* a call that returns without generation returns the fixed fallback answer
\* and leaves the history as it was.
C5_GeneratedAnswerRecorded ==
  [][(last'.op = "answerQuestion" /\ ~last'.threw)
       => IF last'.calls.chat > 0
          THEN conversationHistory' =
                 TurnRecorded(conversationHistory,
                              StripAngles(Trim(last'.question)),
                              last'.result.answer, now)
          ELSE /\ last'.result.answer = Sentinel
               /\ ~last'.allowModelKnowledge
               /\ conversationHistory' = conversationHistory]_vars

\* A generated answer was recorded on a full history.
C5_Witness ==
  /\ Answered /\ ~last.threw /\ last.calls.chat > 0
  /\ last.lenBefore = 20
  /\ conversationHistory[20].role = "assistant"
  /\ conversationHistory[19].content = <<" ", "a">>

\* C6: in strict mode a retrieval of zero chunks returns the fixed answer with
\* no sources and no chunks used, and the generation is not called.
C6_StrictFallback ==
  (Answered /\ last.validated /\ ~last.allowModelKnowledge /\ last.retrieved = 0)
    => /\ ~last.threw
       /\ last.result = [answer |-> Sentinel, sources |-> <<>>,
                         chunks_used |-> 0, topic |-> currentTopicId]
       /\ last.calls.chat = 0

\* In strict mode the store answered a query with no record.
C6_Witness ==
  /\ Answered /\ last.validated /\ ~last.allowModelKnowledge
  /\ last.searchOk /\ last.calls.query = 1 /\ last.retrieved = 0
  /\ last.result.answer = Sentinel

\* C7: when the collection, the embedding or the query fails, the retrieval
\* yields no chunk and throws nothing, and answerQuestion ends as it does when
\* the store answers with no record.
C7_RetrievalFailureIsEmpty ==
  [][(last'.op = "answerQuestion" /\ last'.validated /\ ~last'.searchOk)
       => /\ last'.retrieved = 0
          /\ last'.error # SearchError
          /\ \E g \in GenEnvs :
               LET z == answerQuestion(
                          currentTopicId, conversationHistory, collections,
                          [DefaultConfig EXCEPT
                             !.allowModelKnowledge = last'.allowModelKnowledge],
                          last'.question,
                          MkEnv("none", <<>>, DefaultMismatch, g), now)
               IN  /\ z.threw = last'.threw
                   /\ z.error = last'.error
                   /\ z.result = last'.result
                   /\ z.calls.chat = last'.calls.chat
                   /\ z.history = conversationHistory'
                   /\ z.time = now']_vars

\* The query failed in hybrid mode and an answer was generated.
C7_Witness ==
  /\ Answered /\ last.validated /\ ~last.searchOk
  /\ last.calls.query = 1
  /\ last.allowModelKnowledge /\ last.gen = "ok"

\* C8: when the generation call fails, answerQuestion throws that error and
\* returns no result, in both modes.
C8_GenerationFailurePropagates ==
  (Answered /\ last.chatFailed)
    => /\ last.threw
       /\ last.error = GenError
       /\ last.result = NoResult

\* The generation failed in strict mode, with chunks retrieved.
C8_Witness ==
  /\ Answered /\ last.chatFailed
  /\ ~last.allowModelKnowledge /\ last.retrieved > 0

----------------------------------------------------------------------------
(* The relevance warnings never surface an error *)

\* The configuration with both warnings disabled.
WarningsOff(config) ==
  [config EXCEPT !.enableSimilarityWarning = FALSE,
                 !.enableTopicMismatchWarning = FALSE]

\* The topic-mismatch check fails inside: an embedding call fails, or the two
\* embeddings have different lengths.
WarningCheckFails(m) == ~m.qOk \/ ~m.tOk \/ Len(m.q) # Len(m.t)

\* C9: retrieveRelevantChunks never throws, and whatever fails inside the
\* warning checks it returns the chunk list it returns, on the same store and
\* the same search answer, with both warnings disabled.
C9_WarningsNeverSurface ==
  retr.done =>
    /\ ~retr.out.threw
    /\ retr.out.chunks =
         retrieveRelevantChunks(retr.cols, retr.topicId,
                                WarningsOff(retr.config), retr.env).chunks

\* The mismatch check was enabled and failed inside after a search that
\* found chunks, one of them a near-duplicate that was dropped.
C9_Witness ==
  /\ retr.done
  /\ retr.config.enableTopicMismatchWarning
  /\ retr.out.searchOk
  /\ WarningCheckFails(retr.env.mismatch)
  /\ Len(retr.out.chunks) > 0
  /\ Len(retr.out.chunks) < Len(retr.env.results)

----------------------------------------------------------------------------
(* A failing template does not end the research *)

\* The search for the template at position k of the run came back and its
\* response was turned into chunks.
TemplateSucceeded(r, k) ==
  /\ r.fetched[k].ok
  /\ ~processSearchResults(r.fetched[k].data, r.topic, r.topicId,
                           searchTemplates[k], r.config).threw

\* The chunks of the first n templates that succeeded, in template order.
RECURSIVE ChunksOfSucceeded(_, _)
ChunksOfSucceeded(r, n) ==
  IF n = 0 THEN <<>>
  ELSE ChunksOfSucceeded(r, n - 1)
       \o (IF TemplateSucceeded(r, n)
           THEN processSearchResults(r.fetched[n].data, r.topic, r.topicId,
                                     searchTemplates[n], r.config).chunks
           ELSE <<>>)

\* C10: whichever templates fail, researchTopic searches the templates one
\* after the other in their order, each with its rendered query, never throws
\* and returns only after the last one; the chunks collected, and returned in
\* the end, are exactly the chunks of the templates that succeeded, in
\* template order.
C10_FailedTemplateIsSkipped ==
  research.phase # "idle" =>
    /\ Len(research.fetched) = research.i
    /\ \A k \in 1..research.i :
          research.fetched[k].query =
            ReplaceTopic(searchTemplates[k], research.topic)
    /\ research.allChunks = ChunksOfSucceeded(research, research.i)
    /\ research.phase = "done" =>
          /\ ~research.threw
          /\ research.i = Len(searchTemplates)
          /\ research.result.chunks = research.allChunks

\* A run returned in which a template between two that succeeded with chunks
\* had failed.
C10_Witness ==
  /\ research.phase = "done"
  /\ \E j, k, l \in 1..research.i :
        /\ j < k /\ k < l
        /\ ~TemplateSucceeded(research, k)
        /\ TemplateSucceeded(research, j)
        /\ TemplateSucceeded(research, l)
        /\ \E a, b \in 1..Len(research.result.chunks) :
              /\ a < b
              /\ Includes(research.result.chunks[a].id,
                          getTemplateKey(searchTemplates[j]) \o <<"_organic_">>)
              /\ Includes(research.result.chunks[b].id,
                          getTemplateKey(searchTemplates[l]) \o <<"_organic_">>)

----------------------------------------------------------------------------
(* Topic ingestion *)

\* The ingestion has ended after a research that collected no chunk.
IngestedNothing ==
  /\ ingest.step = "done"
  /\ ingest.researchCalls = 1
  /\ research.phase = "done"
  /\ Len(research.result.chunks) = 0

\* C11: an ingestion whose research collected no chunk over all templates
\* ends with the no-data outcome: storeTopicChunks is not called, no
\* embedding is requested, nothing is written, and the phase, the displayed
\* topic, the RAG state and the collections of the store are what they were
\* when the handler was called.
C11_NoDataLeavesStateAlone ==
  IngestedNothing =>
    /\ ingest.outcome = "no_data"
    /\ ingest.storeCalls = 0
    /\ ingest.embedCalls = 0
    /\ ingest.addCalls = 0
    /\ CurrentSession = ingest.before

\* After a chat that left a history, a topic was researched for which one
\* template failed and another found nothing.
C11_Witness ==
  /\ IngestedNothing
  /\ ingest.outcome = "no_data"
  /\ Len(conversationHistory) > 0
  /\ currentTopicId # Null
  /\ \E j, k \in 1..Len(research.fetched) :
        ~research.fetched[j].ok /\ research.fetched[k].ok

\* C12: every collection.add of an ingestion is called with ids, embeddings,
\* documents and metadatas of one length, the number of chunks; and a store
\* whose embedding loop ended early, so that the embeddings are fewer than
\* the ids, fails without a write.
C12_WriteArraysAligned ==
  ingest.storeCalls = 1 =>
    /\ \A a \in 1..Len(ingest.added) :
          /\ Len(ingest.added[a].ids) = Len(research.result.chunks)
          /\ Len(ingest.added[a].embeddings) = Len(ingest.added[a].ids)
          /\ Len(ingest.added[a].documents) = Len(ingest.added[a].ids)
          /\ Len(ingest.added[a].metadatas) = Len(ingest.added[a].ids)
    /\ ingest.storeFailure \in {"embedFirst", "embedLast"} =>
          /\ ingest.addCalls = 0
          /\ ingest.outcome = "failed"

\* Several chunks were written in one batch.
C12_Witness ==
  /\ ingest.outcome = "stored"
  /\ ingest.addCalls = 1
  /\ Len(ingest.added[1].ids) >= 2
  /\ Len(StoredAt(collections, ingest.topicId)) >= 2

----------------------------------------------------------------------------
(* Deduplication *)

\* The first 100 characters of a content, lower-cased, with every run of
\* whitespace as one space.
C13_Fingerprint(content) ==
  CollapseWs(ToLowerCase(SubSeq(content, 1,
                                IF Len(content) < 100 THEN Len(content)
                                ELSE 100)))

\* The positions of a chunk list whose fingerprint occurs at no earlier
\* position.
C13_FirstOfFingerprint(chunks) ==
  {i \in 1..Len(chunks) :
     \A j \in 1..(i - 1) :
        C13_Fingerprint(chunks[j].content) # C13_Fingerprint(chunks[i].content)}

\* C13: deduplicateChunks returns the chunks at the first position of every
\* fingerprint, in input order: the output is a subsequence of the input, it
\* is not longer than the input, and no two of its chunks share a
\* fingerprint.
C13_KeepsFirstOfEachFingerprint ==
  calc.op = "deduplicateChunks" =>
    LET chunks == calc.input
        unique == calc.output
        first == C13_FirstOfFingerprint(chunks)
        rank(i) == Cardinality({j \in first : j <= i})
    IN  /\ Len(unique) = Cardinality(first)
        /\ Len(unique) <= Len(chunks)
        /\ \A i \in first : unique[rank(i)] = chunks[i]
        /\ \A a, b \in 1..Len(unique) :
              a # b => C13_Fingerprint(unique[a].content)
                         # C13_Fingerprint(unique[b].content)

\* A chunk was dropped whose fingerprint had occurred two places earlier,
\* with a chunk of another fingerprint in between.
C13_Witness ==
  /\ calc.op = "deduplicateChunks"
  /\ Len(calc.input) = 3
  /\ Len(calc.output) = 2
  /\ calc.input[1] # calc.input[3]
  /\ C13_Fingerprint(calc.input[1].content)
       = C13_Fingerprint(calc.input[3].content)
  /\ calc.output = <<calc.input[1], calc.input[2]>>

----------------------------------------------------------------------------
(* Context building *)

\* C14: in the order in which buildContext places chunks into the context,
\* every knowledge_graph chunk precedes every other chunk whatever their
\* distances, and among chunks of the same type distances do not decrease.
C14_KnowledgeFirstThenDistance ==
  calc.op = "buildContext" =>
    LET placed == calc.output.placed
    IN  \A a, b \in 1..Len(placed) :
          a < b =>
            /\ placed[b].metadata.type = "knowledge_graph"
                 => placed[a].metadata.type = "knowledge_graph"
            /\ placed[a].metadata.type = placed[b].metadata.type
                 => placed[a].distance <= placed[b].distance

\* A knowledge graph chunk that came last in the input, at the greatest
\* distance, was placed first, before two search results that were placed
\* by distance against their input order.
C14_Witness ==
  /\ calc.op = "buildContext"
  /\ calc.input = <<CtxFar, CtxNear, CtxKnowledge>>
  /\ calc.output.placed = <<CtxKnowledge, CtxNear, CtxFar>>

\* The blocks of the first n chunks of the sorted list, one after the other.
C15_Blocks(n) ==
  Flatten([i \in 1..n |-> BlockOf(calc.output.sortedChunks[i])])

\* The number of leading chunks of the sorted list whose blocks fit the
\* budget together: the next block, if there is one, would exceed it.
C15_Fitting ==
  CHOOSE n \in 0..Len(calc.output.sortedChunks) :
    /\ Len(C15_Blocks(n)) <= calc.maxLength
    /\ n < Len(calc.output.sortedChunks)
         => Len(C15_Blocks(n + 1)) > calc.maxLength

\* C15 as claimed: the context is no longer than maxContextLength and is the
\* concatenation of the blocks of a prefix of the sorted list that ends
\* before the first chunk whose block would exceed the budget.
C15_ContextIsBlocksOfPrefix ==
  calc.op = "buildContext" =>
    /\ Len(calc.output.context) <= calc.maxLength
    /\ calc.output.context = C15_Blocks(C15_Fitting)

\* C15: the context is no longer than maxContextLength and is the
\* concatenation of the blocks of a prefix of the sorted list, with the
\* whitespace at its ends trimmed; the prefix ends before the first chunk
\* whose block would exceed the budget, and no later chunk is added.
C15_ContextIsTrimmedBlocksOfPrefix ==
  calc.op = "buildContext" =>
    /\ Len(calc.output.context) <= calc.maxLength
    /\ calc.output.context = Trim(C15_Blocks(C15_Fitting))
    /\ calc.output.placed
         = SubSeq(calc.output.sortedChunks, 1, C15_Fitting)

\* One block was placed, the second did not fit, and the third, which would
\* have fitted in its place, was not added.
C15_Witness ==
  /\ calc.op = "buildContext"
  /\ Len(calc.output.sortedChunks) = 3
  /\ Len(calc.output.placed) = 1
  /\ Len(C15_Blocks(2)) > calc.maxLength
  /\ Len(C15_Blocks(1)) + Len(BlockOf(calc.output.sortedChunks[3]))
       <= calc.maxLength
  /\ calc.output.context # <<>>

----------------------------------------------------------------------------
(* Confidence *)

\* C16: every result that answerQuestion returns carries a confidence that
\* is an integer from 0 to 100, and the confidence of a result computed from
\* no retrieved chunk is 0.
C16_ConfidenceWithinRange ==
  (Answered /\ ~last.threw) =>
    /\ "confidence" \in DOMAIN last.result
    /\ last.result.confidence \in 0..100
    /\ last.retrieved = 0 => last.result.confidence = 0

----------------------------------------------------------------------------
(* Topic ids *)

\* The lower-cased name without the characters other than a-z, 0-9 and
\* whitespace, with one underscore for every run of whitespace.
C17_Normalized(topic) ==
  LET kept == SelectSeq([i \in 1..Len(topic) |-> LowerOf(topic[i])],
                        LAMBDA c : c \in Letters \cup Digits \/ IsWs(c))
  IN  SelectSeq([i \in 1..Len(kept) |->
                   IF ~IsWs(kept[i]) THEN kept[i]
                   ELSE IF i = 1 \/ ~IsWs(kept[i - 1]) THEN "_" ELSE ""],
                LAMBDA c : c # "")

\* C17: generateTopicId returns the lower-cased name with every character
\* other than a-z, 0-9 and whitespace removed and every run of whitespace
\* replaced by one underscore, cut to a bounded length; "Rust programming
\* language" maps to rust_programming_language.
C17_TopicIdNormalizedAndBounded ==
  calc.op = "generateTopicId" =>
    /\ Len(calc.output) <= TopicIdLimit
    /\ calc.output = Substring0(C17_Normalized(calc.input), Len(calc.output))
    /\ calc.input = NameRustLanguage =>
         calc.output =
           <<"r", "u", "s", "t", "_", "p", "r", "o", "g", "r", "a", "m", "m",
             "i", "n", "g", "_", "l", "a", "n", "g", "u", "a", "g", "e">>

----------------------------------------------------------------------------
(* Topic validation *)

\* C18: handleTopicIngestion accepts exactly the text inputs of 1 to 100
\* characters, as the loop hands them over (trimmed), and rejects any other
\* input before a topic id is derived and before a collaborator is called.
C18_ValidationAcceptsOneToHundred ==
  ingest.step # "idle" =>
    /\ ingest.outcome # "invalid"
         <=> /\ ingest.input \notin {Null, NotAString}
             /\ Len(Trim(ingest.input)) \in 1..100
    /\ ingest.outcome = "invalid"
         => /\ ingest.topicIdCalls = 0 /\ ingest.existsCalls = 0
            /\ ingest.researchCalls = 0 /\ ingest.storeCalls = 0
            /\ CurrentSession = ingest.before

----------------------------------------------------------------------------
(* Chunking *)

\* The words of the text that was chunked: what lies between its spaces.
C19_Words == Split(calc.input, " ")

\* Window i, from 0: the words from i * (chunkSize - overlap) on, chunkSize
\* of them or as many as are left, with one space between them, trimmed.
C19_Window(i) ==
  LET from == i * (calc.chunkSize - calc.overlap)
      to == IF from + calc.chunkSize < Len(C19_Words)
            THEN from + calc.chunkSize ELSE Len(C19_Words)
  IN  Trim(Join(SubSeq(C19_Words, from + 1, to), " "))

\* The number of windows that start inside the text.
C19_Windows ==
  (Len(C19_Words) + (calc.chunkSize - calc.overlap) - 1)
    \div (calc.chunkSize - calc.overlap)

\* C19: for an overlap below the chunk size chunkText ends after no more
\* steps than the text has words; every chunk it returns is non-empty; the
\* chunks are the windows that do not trim to nothing, window i covering the
\* words from i * (chunkSize - overlap) up to chunkSize later; every word of
\* the text lies in a chunk; chunkText("a b c d e f", 4, 1) is
\* ["a b c d", "d e f"].
C19_WindowsCoverEveryWord ==
  (calc.op = "chunkText" /\ 0 < calc.overlap) =>
    /\ Len(calc.output) <= Len(C19_Words)
    /\ \A c \in 1..Len(calc.output) : Len(calc.output[c]) > 0
    /\ calc.output = SelectSeq([i \in 1..C19_Windows |-> C19_Window(i - 1)],
                               LAMBDA chunk : chunk # <<>>)
    /\ \A w \in 1..Len(C19_Words) :
          Trim(C19_Words[w]) # <<>>
            => \E c \in 1..Len(calc.output) :
                  Includes(calc.output[c], Trim(C19_Words[w]))
    /\ ( /\ calc.input = <<"a", " ", "b", " ", "c", " ", "d", " ", "e", " ", "f">>
         /\ calc.chunkSize = 4 /\ calc.overlap = 1 )
         => calc.output = << <<"a", " ", "b", " ", "c", " ", "d">>,
                             <<"d", " ", "e", " ", "f">> >>

\* A text with an empty word between two spaces was chunked with windows of
\* two words that overlap by one: the window of the empty word and "b" is
\* the chunk "b", and no chunk is empty.
C19_Witness ==
  /\ calc.op = "chunkText"
  /\ calc.input = <<"a", " ", " ", "b">>
  /\ calc.chunkSize = 2 /\ calc.overlap = 1
  /\ calc.output = << <<"a">>, <<"b">>, <<"b">> >>

\* C20: for a text that is not blank and has fewer words than chunkSize, and
\* any overlap below chunkSize, chunkText returns one chunk, which contains
\* the text (without the blanks at its ends).
C20_ShortTextIsOneChunk ==
  ( /\ calc.op = "chunkText"
    /\ Trim(calc.input) # <<>>
    /\ Len(Split(calc.input, " ")) < calc.chunkSize )
    => /\ Len(calc.output) = 1
       /\ Includes(calc.output[1], Trim(calc.input))

----------------------------------------------------------------------------
(* The cache of search responses *)

\* The fetch of the template that a step of the loop has just handled.
C21_Fetch == research'.fetched[Len(research'.fetched)]

\* The cache file of that fetch is there before the step and younger than
\* the expiry.
C21_Fresh ==
  /\ getCacheFilename(C21_Fetch.query) \in DOMAIN cache
  /\ cache[getCacheFilename(C21_Fetch.query)].age < expiryDays

\* The cache holds the response of that fetch under its query after the step.
C21_Saved ==
  /\ getCacheFilename(C21_Fetch.query) \in DOMAIN cache'
  /\ cache'[getCacheFilename(C21_Fetch.query)] =
       [payload |-> [query |-> C21_Fetch.query, data |-> C21_Fetch.data],
        age |-> 0]

C22_ReadUpToExpiry ==
  [][( /\ Len(research'.fetched) = Len(research.fetched) + 1
       /\ getCacheFilename(C21_Fetch.query) \in DOMAIN cache
       /\ C21_Fetch.readOk )
       => ( cache[getCacheFilename(C21_Fetch.query)].age <= expiryDays
              <=> /\ C21_Fetch.providerCalls = 0
                  /\ C21_Fetch.data =
                       cache[getCacheFilename(C21_Fetch.query)].payload.data )]_vars

----------------------------------------------------------------------------
(* Chunk ids *)

\* C23: the chunks that one run of researchTopic has collected, over all
\* templates, results, knowledge graph entries and text windows, carry
\* pairwise distinct ids, and so do the ids topicId_id of the batch write.
C23_ChunkIdsDistinct ==
  \A i, j \in 1..Len(research.allChunks) :
     i # j =>
       /\ research.allChunks[i].id # research.allChunks[j].id
       /\ research.topicId \o <<"_">> \o research.allChunks[i].id
            # research.topicId \o <<"_">> \o research.allChunks[j].id

\* Two templates received the same result, in two text windows each: four
\* chunks with two contents, and the run has returned them.
C23_Witness ==
  /\ research.phase = "done"
  /\ \E i, j, k \in 1..Len(research.result.chunks) :
        /\ i < j /\ j < k
        /\ research.result.chunks[i].content = research.result.chunks[k].content
        /\ research.result.chunks[i].url = research.result.chunks[k].url
        /\ research.result.chunks[i].metadata.rank
             = research.result.chunks[j].metadata.rank
        /\ research.result.chunks[i].metadata.chunkIndex
             # research.result.chunks[j].metadata.chunkIndex
        /\ research.result.chunks[i].metadata.searchType
             # research.result.chunks[k].metadata.searchType

\* C24: the chunks that handleTopicIngestion hands to storeTopicChunks have
\* been deduplicated: no two of them share a fingerprint.
C24_StoredChunksDeduplicated ==
  ingest.storeCalls = 1 =>
    \A i, j \in 1..Len(research.result.chunks) :
       i # j => Fingerprint(research.result.chunks[i].content)
                  # Fingerprint(research.result.chunks[j].content)

----------------------------------------------------------------------------
(* History order *)

\* C25: when a turn is added (the clock moves on by its two entries) to a
\* history that it takes over 20 entries, the entries dropped are the oldest: the 18 entries before the new turn are
\* the most recent 18 of the old history, in their order, and the new user
\* and assistant entries are the last two.
C25_OldestEntriesDropped ==
  [][( /\ last'.op = "answerQuestion"
       /\ now' = now + 2
       /\ Len(conversationHistory) + 2 > 20 )
       => /\ Len(conversationHistory') = 20
          /\ \A k \in 1..18 :
                conversationHistory'[k] =
                  conversationHistory[k + Len(conversationHistory) - 18]
          /\ conversationHistory'[19].role = "user"
          /\ conversationHistory'[19].timestamp = now
          /\ conversationHistory'[20].role = "assistant"
          /\ conversationHistory'[20].timestamp = now + 1]_vars

\* A turn was added to a full history: the history starts with a user entry
\* that is not the first one written, and its entries are in the order in
\* which they were written.
C25_Witness ==
  /\ Answered /\ last.lenBefore = 20 /\ Len(conversationHistory) = 20
  /\ conversationHistory[1].role = "user"
  /\ conversationHistory[1].timestamp > 0
  /\ \A k \in 1..19 :
        conversationHistory[k].timestamp < conversationHistory[k + 1].timestamp

\* The line of one history entry, "role: content".
C26_Line(entry) == <<entry.role, ":", " ">> \o entry.content

\* The lines of the last min(4, length) entries of a history, in order,
\* one per line.
C26_RecentLines(h) ==
  LET n == IF Len(h) < 4 THEN Len(h) ELSE 4
  IN  Join([k \in 1..n |-> C26_Line(h[Len(h) - n + k])], "\n")

\* C26: the recent-conversation block of the prompt of a turn is the last
\* min(4, length) entries of the history as it stood before the turn, in
\* order, each rendered as "role: content"; with an empty history the prompt
\* has no such block.
C26_RecentBlockIsLastFour ==
  [][(last'.op = "answerQuestion" /\ last'.calls.chat = 1) =>
       LET p == last'.prompt
           lines == C26_RecentLines(conversationHistory)
       IN  IF conversationHistory = <<>>
           THEN \A i \in 1..Len(p) : p[i] # RecentStart
           ELSE \E i \in 1..Len(p) :
                  /\ p[i] = RecentStart
                  /\ i + Len(lines) + 1 <= Len(p)
                  /\ SubSeq(p, i + 1, i + Len(lines)) = lines
                  /\ p[i + Len(lines) + 1] = QuestionStart]_vars

\* A turn answered on a history of more than four entries, whose prompt has
\* the block.
C26_Witness ==
  /\ last.op = "answerQuestion"
  /\ last.gen = "ok"
  /\ last.lenBefore > 4
  /\ \E i \in 1..Len(last.prompt) : last.prompt[i] = RecentStart

\* C27: when the topic id derived from the input already has a collection,
\* handleTopicIngestion calls neither the search provider nor the embedding
\* model, writes nothing to the store, and goes straight to setting the
\* topic.
C27_ExistingTopicNotIngested ==
  (ingest.topicIdCalls = 1 /\ ingest.topicId \in DOMAIN ingest.before.collections)
    => /\ ingest.outcome = "exists"
       /\ ingest.researchCalls = 0
       /\ ingest.storeCalls = 0
       /\ ingest.embedCalls = 0
       /\ ingest.addCalls = 0
       /\ collections = ingest.before.collections

\* C28: the search-provider calls of one ingestion are issued one at a time
\* in template order: a call is issued only when no other is outstanding,
\* for a template after every template called before, and, but for the
\* first template, after the delay between requests has been waited.
C28_ProviderCallsSequential ==
  [][research'.issued # research.issued =>
       /\ research.outstanding = <<>>
       /\ Len(research'.outstanding) = 1
       /\ research'.issued = Append(research.issued,
                                    research'.outstanding[1])
       /\ \A k \in 1..Len(research.issued) :
            research.issued[k] < research'.outstanding[1]
       /\ research'.outstanding[1] > 1 => research.pc = "delayed"]_vars

\* The provider is called for one template while the loop has gone through
\* an earlier call and the delay after it.
C28_Witness ==
  /\ Len(research.issued) = 2
  /\ research.outstanding = <<research.issued[2]>>
  /\ research.delays >= 1

\* C29: after storeTopicChunks has failed for a topic that had no
\* collection, the topic is still absent from the vector store: topicExists
\* returns false for it.
C29_FailedStoreLeavesTopicAbsent ==
  (/\ ingest.outcome = "failed"
   /\ ingest.storeCalls = 1
   /\ ingest.topicId \notin DOMAIN ingest.before.collections)
    => ~topicExists(collections, ingest.topicId, TRUE)

\* C30: when setTopic fails in a switch because the topic is not found, the
\* RAG state (currentTopic, currentTopicId, conversationHistory), the phase
\* and the displayed topic are all as they were before.
C30_FailedSwitchChangesNothing ==
  [][(SwitchToExistingTopic /\ last'.threw) =>
       /\ currentTopic' = currentTopic
       /\ currentTopicId' = currentTopicId
       /\ conversationHistory' = conversationHistory
       /\ currentPhase' = currentPhase
       /\ displayedTopic' = displayedTopic]_vars

\* A switch failed during a chat on a stored topic with questions answered.
C30_Witness ==
  /\ last.op = "switch"
  /\ last.threw
  /\ currentPhase = "CHAT"
  /\ currentTopicId # Null
  /\ last.topicArg # currentTopicId
  /\ Len(conversationHistory) > 0

\* C31: a call of answerQuestion that throws (no topic, empty question, or
\* a failed generation) leaves the conversation history exactly as it was.
C31_ThrowLeavesHistory ==
  [][(last'.op = "answerQuestion" /\ last'.threw)
       => conversationHistory' = conversationHistory]_vars

\* The generation failed on a question asked after answered turns.
C31_Witness ==
  /\ last.op = "answerQuestion"
  /\ last.threw
  /\ last.chatFailed
  /\ last.lenBefore > 0
  /\ Len(conversationHistory) = last.lenBefore

\* C32: in the CHAT phase the RAG state has a topic id, the one derived from
\* the displayed topic name; the phase becomes CHAT only in a step in which
\* setTopic succeeded (the topic is in the store and the history empty); and
\* every question handed to answerQuestion finds that topic set.
C32_ChatHasItsTopic ==
  [][/\ currentPhase' = "CHAT" =>
          /\ currentTopicId' \notin {Null, <<>>}
          /\ currentTopicId' = generateTopicId(displayedTopic')
          /\ currentTopic' = currentTopicId'
     /\ (currentPhase # "CHAT" /\ currentPhase' = "CHAT") =>
          /\ currentTopicId' \in DOMAIN collections'
          /\ conversationHistory' = <<>>
     /\ (last' # last /\ last'.op = "answerQuestion") =>
          /\ currentPhase = "CHAT"
          /\ last'.error # NoTopicError
          /\ last'.topicBefore = generateTopicId(displayedTopic)]_vars

\* A chat on a researched topic, after a question answered on another topic
\* that was switched to and left with the back command.
C32_Witness ==
  /\ currentPhase = "CHAT"
  /\ ingest.outcome = "stored"
  /\ currentTopicId = ingest.topicId
  /\ last.op = "answerQuestion"
  /\ last.gen = "ok"
  /\ last.topicBefore # currentTopicId

\* C33: generateTopicId returns its own outputs unchanged, so that an id as
\* listTopics reports it, typed after the switch or the stats command, names
\* the topic it was made for.
C33_TopicIdIdempotent ==
  calc.op = "generateTopicId" => generateTopicId(calc.output) = calc.output

\* C34: a call of fetchTopicData answered from the cache returns the payload
\* that was saved for its own query string, and a call that saves a response
\* replaces no cache entry saved for another query string.
C34_CacheEntryPerQuery ==
  [][research'.i = research.i + 1 =>
       LET e == research'.fetched[Len(research'.fetched)]
           f == getCacheFilename(e.query)
       IN  /\ (e.ok /\ e.providerCalls = 0) => cache[f].payload.query = e.query
           /\ (f \in DOMAIN cache /\ cache'[f] # cache[f]) =>
                cache[f].payload.query = e.query]_vars

\* The first line of the block of a chunk with the source s.
SourceLine(s) == <<"S", "o", "u", "r", "c", "e", ":", " ", s, "\n">>

\* The number of blocks in a prompt.
BlocksIn(prompt) ==
  Cardinality({i \in 1..(Len(prompt) - 7) :
                 SubSeq(prompt, i, i + 7) = SubSeq(SourceLine(""), 1, 8)})

\* C35: every source of an answer is the source of a block of the context in
\* the prompt that was sent to the generation, and chunks_used counts no
\* more chunks than the context has blocks.
C35_SourcesAreInContext ==
  (last.op = "answerQuestion" /\ last.gen = "ok") =>
    /\ \A k \in 1..Len(last.result.sources) :
         Includes(last.prompt, SourceLine(last.result.sources[k]))
    /\ last.result.chunks_used <= BlocksIn(last.prompt)

\* C36: between operations the history has an even number of entries, the
\* odd ones written by the user and the even ones by the assistant.
C36_HistoryAlternates ==
  /\ Len(conversationHistory) % 2 = 0
  /\ \A k \in 1..Len(conversationHistory) :
       conversationHistory[k].role =
         IF k % 2 = 1 THEN "user" ELSE "assistant"

\* The second turn answered on a full history: two exchanges were dropped.
C36_Witness ==
  /\ Answered /\ last.gen = "ok" /\ last.lenBefore = 20
  /\ Len(conversationHistory) = 20
  /\ conversationHistory[1].timestamp = 4
  /\ conversationHistory[20].role = "assistant"

\* The first word of a line: what stands before its first space.
FirstWord(line) ==
  SubSeq(line, 1,
         (CHOOSE k \in 1..(Len(line) + 1) :
            /\ k = Len(line) + 1 \/ line[k] = " "
            /\ \A j \in 1..(k - 1) : line[j] # " ") - 1)

C38_HistoryWithinConfiguredCap ==
  Len(conversationHistory) <= chatMaxHistoryLength

\* C39: storeTopicChunks has at most one embedding request outstanding; its
\* requests are for the contents of the chunks, one each, in chunk order; a
\* write is made only after every chunk's request has returned, and never
\* after a request has failed; and a call that succeeds has made exactly one
\* write, of as many embeddings as chunks, and has stored what the one-step
\* storeTopicChunks stores.
C39_EmbedEachChunkThenWriteOnce ==
  calc.op = "storeTopicChunks" =>
    /\ calc.outstanding <= 1
    /\ Len(calc.requests) <= Len(calc.chunks)
    /\ \A k \in 1..Len(calc.requests) :
         calc.requests[k] = calc.chunks[k].content
    /\ Len(calc.added) <= 1
    /\ Len(calc.added) = 1 =>
         /\ Len(calc.requests) = Len(calc.chunks)
         /\ Len(calc.embeddings) = Len(calc.chunks)
         /\ calc.outstanding = 0
         /\ calc.added[1].embeddings = calc.embeddings
    /\ calc.embedFailed => calc.added = <<>>
    /\ calc.pc = "done" =>
         /\ Len(calc.added) = 1
         /\ collections =
              storeTopicChunks(calc.cols, calc.topicId, calc.chunks,
                               [getOk |-> calc.getOk, createOk |-> calc.createOk,
                                embedFailAt |-> 0, addOk |-> TRUE], now).cols

\* Three chunks were embedded one after the other and written in one batch
\* into a collection that was created for them.
C39_Witness ==
  /\ calc.op = "storeTopicChunks"
  /\ calc.pc = "done"
  /\ Len(calc.chunks) = 3
  /\ calc.topicId \notin DOMAIN calc.cols
  /\ Len(StoredAt(collections, calc.topicId)) = 3
====
